---- MODULE Spec2Model ----
(***************************************************************************)
(* Model of the MIDI -> LLM text converter: midi_parser.parse_midi_file    *)
(* (note pairing per track), llm_converter._ticks_to_duration_code         *)
(* (nearest-neighbour duration quantizer) and llm_converter.               *)
(* midi_to_llm_text (pass 1: musical objects, pass 2: bar lines and        *)
(* tokens, final clean-up of the track body).                              *)
(*                                                                         *)
(* Text is modelled as a sequence of symbols: "|" , " " and words (maximal *)
(* runs of other characters, e.g. "C4/4", "dyn(mf)", "5").  The string     *)
(* operations of the converter only look at "|" and " ", so they are       *)
(* modelled symbol by symbol; Flatten gives the text itself.               *)
(*                                                                         *)
(* Beat values are kept in 16ths of a beat (0.0625 beat = 1), a difference *)
(* |ticks/ticks_per_beat - beat_val| as the integer                        *)
(* |16*ticks - beat16*ticks_per_beat| (in units of 1/(16*ticks_per_beat)   *)
(* beat): the comparisons of the code are comparisons of these integers.   *)
(***************************************************************************)
EXTENDS Integers, Sequences, FiniteSets, TLC

VARIABLES
    pc,                  \* position of the program
    \* ---- midi_parser.parse_midi_file
    midi_tpb,            \* midi_file.ticks_per_beat as declared by the file
    ticks_per_beat,      \* tpb / parsed_data['ticks_per_beat']
    time_signature,      \* metadata['time_signature']
    initial_time_sig_found,
    track_index,         \* index of the track being parsed / converted
    msg_count,           \* messages read so far (bounds the input)
    current_tick,
    active_notes,        \* dict in insertion order: seq of [note, start_tick, velocity]
    logged,              \* the logging calls of the parser's latest step
    track_events,        \* events of the current track
    tracks_data,         \* parsed_data['tracks_data']
    \* ---- llm_converter.midi_to_llm_text
    ev_i,                \* index of the next event of pass 1
    musical_objects,
    last_event_end_tick,
    current_dynamic,
    ticks_per_measure,
    track_string_parts,
    current_measure,
    i,                   \* index of the next object of pass 2 (1-based)
    output_lines,
    result,              \* returned document
    \* ---- llm_converter._ticks_to_duration_code called on its own
    ticks,
    best_match_code,
    low_confidence,      \* the warning of lines 89-90 was logged
    \* ---- settings_manager: the settings file and one save / load
    settings_file,       \* [exists, text]: the file of _get_settings_filepath()
    path,                \* the argument of save_musescore_path
    saved,               \* what save_musescore_path returned
    loaded_path,         \* what load_musescore_path returned
    \* ---- file_handler.MidiConverterApp
    input_path_var,
    convert_midi_to_text_button,   \* state of the widget: "normal" / "disabled"
    browse_button,
    input_path_entry,
    threads,             \* the run_conversion threads alive, each at its position
    after_queue,         \* callbacks given to master.after(0, ...), not yet run
    messagebox,          \* the message box shown by the latest start request
    status               \* the status of the log message of line 411

parser_vars == <<midi_tpb, time_signature, initial_time_sig_found, msg_count,
                 current_tick, active_notes, logged>>
conv_vars == <<ev_i, musical_objects, last_event_end_tick, current_dynamic,
               ticks_per_measure, track_string_parts, current_measure, i,
               output_lines, result>>
quant_vars == <<ticks, best_match_code, low_confidence>>
settings_vars == <<settings_file, path, saved, loaded_path>>
gui_vars == <<input_path_var, convert_midi_to_text_button, browse_button,
              input_path_entry, threads, after_queue, messagebox, status>>
app_vars == <<settings_vars, gui_vars>>
vars == <<pc, ticks_per_beat, track_index, track_events, tracks_data,
          parser_vars, conv_vars, quant_vars, app_vars>>

-----------------------------------------------------------------------------
(* Bounds of the model *)

MaxMsgs == 3        \* messages of a file, over all its tracks
MaxTracks == 2      \* tracks of a file
MaxEvents == 3      \* events of a track handed directly to midi_to_llm_text
MaxTicks == 4000    \* largest duration handed directly to the quantizer
MaxPairEvents == 2  \* events of a two-track result handed to midi_to_llm_text

(* config.py *)
DEFAULT_TICKS_PER_BEAT == 480
DEFAULT_TIME_SIGNATURE == <<4, 4>>
DEFAULT_KEY_SIGNATURE == "C"
MIN_REST_DURATION_TICKS == 5
\* 0.25 beat, as a fraction
MAX_QUANTIZATION_ERROR_BEATS == [num |-> 1, den |-> 4]
\* VELOCITY_THRESHOLDS.items() sorted by upper bound (utils.py line 46)
VELOCITY_THRESHOLDS ==
    << <<"ppp", 16>>, <<"pp", 32>>, <<"p", 63>>, <<"mp", 79>>,
       <<"mf", 95>>, <<"f", 111>>, <<"ff", 126>>, <<"fff", 127>> >>

MIDI_NOTE_NAMES == <<"C", "C#", "D", "D#", "E", "F", "F#", "G", "G#", "A", "A#", "B">>

-----------------------------------------------------------------------------
(* Generic helpers: Python built-ins used by the code *)

Abs(x) == IF x < 0 THEN -x ELSE x

\* int(x / y) of Python for an exact quotient x / y: truncation towards zero
TruncDiv(x, y) ==
    IF (x >= 0) = (y > 0) THEN Abs(x) \div Abs(y) ELSE -(Abs(x) \div Abs(y))

\* an element of equal key is moved behind the new one: the sort is not stable
SortsBehindStrict(last_key, new_key) == last_key < new_key

\* list.sort is stable: the new element goes behind every element whose key
\* is not larger
SortsBehind(last_key, new_key) == last_key <= new_key

\* list.sort(key = lambda x: x[key]) / sorted(): stable insertion by key
RECURSIVE InsertByKey(_, _, _)
InsertByKey(s, e, key) ==
    IF s = <<>> THEN <<e>>
    ELSE IF SortsBehind(s[Len(s)][key], e[key]) THEN Append(s, e)
    ELSE Append(InsertByKey(SubSeq(s, 1, Len(s) - 1), e, key), s[Len(s)])

RECURSIVE SortByKey(_, _)
SortByKey(s, key) ==
    IF s = <<>> THEN <<>>
    ELSE InsertByKey(SortByKey(SubSeq(s, 1, Len(s) - 1), key), s[Len(s)], key)

\* s.startswith(p) on symbol sequences
StartsWith(s, p) == Len(s) >= Len(p) /\ SubSeq(s, 1, Len(p)) = p

\* s.replace(old, new): leftmost non-overlapping occurrences
RECURSIVE Replace(_, _, _)
Replace(s, old, new) ==
    IF s = <<>> THEN <<>>
    ELSE IF StartsWith(s, old)
         THEN new \o Replace(SubSeq(s, Len(old) + 1, Len(s)), old, new)
         ELSE <<s[1]>> \o Replace(Tail(s), old, new)

RECURSIVE LStrip(_)
LStrip(s) == IF s # <<>> /\ s[1] = " " THEN LStrip(Tail(s)) ELSE s

RECURSIVE RStrip(_)
RStrip(s) ==
    IF s # <<>> /\ s[Len(s)] = " " THEN RStrip(SubSeq(s, 1, Len(s) - 1)) ELSE s

\* s.strip()
Strip(s) == LStrip(RStrip(s))

\* ' '.join(s.split()): runs of blanks become one blank, none at the ends
RECURSIVE SqueezeBlanks(_)
SqueezeBlanks(s) ==
    IF Len(s) < 2 THEN s
    ELSE IF s[1] = " " /\ s[2] = " " THEN SqueezeBlanks(Tail(s))
    ELSE <<s[1]>> \o SqueezeBlanks(Tail(s))

JoinSplit(s) == SqueezeBlanks(Strip(s))

\* sep.join(parts) for parts that are symbol sequences
RECURSIVE Join(_, _)
Join(parts, sep) ==
    IF parts = <<>> THEN <<>>
    ELSE IF Len(parts) = 1 THEN parts[1]
    ELSE parts[1] \o sep \o Join(Tail(parts), sep)

\* the text a symbol sequence stands for
RECURSIVE Flatten(_)
Flatten(s) == IF s = <<>> THEN "" ELSE s[1] \o Flatten(Tail(s))

\* sep.join(words) for words that are strings
RECURSIVE JoinStr(_, _)
JoinStr(words, sep) ==
    IF words = <<>> THEN ""
    ELSE IF Len(words) = 1 THEN words[1]
    ELSE words[1] \o sep \o JoinStr(Tail(words), sep)

-----------------------------------------------------------------------------
(* utils.py *)

RECURSIVE FirstBucket(_, _)
FirstBucket(velocity, thresholds) ==
    IF thresholds = <<>> THEN "mf"
    ELSE IF velocity <= thresholds[1][2] THEN thresholds[1][1]
    ELSE FirstBucket(velocity, Tail(thresholds))

velocity_to_dynamic(velocity) ==
    IF ~(0 <= velocity /\ velocity <= 127) THEN "mf"
    ELSE FirstBucket(velocity, VELOCITY_THRESHOLDS)

midi_note_to_llm_pitch(note_number) ==
    IF ~(0 <= note_number /\ note_number <= 127) THEN ToString(note_number)
    ELSE MIDI_NOTE_NAMES[(note_number % 12) + 1] \o ToString((note_number \div 12) - 1)

\* line 104 with 4 // denominator: the quotient is truncated before the product
calculate_ticks_per_measure_intdiv(ts, tpb_in) ==
    LET numerator == ts[1]
        denominator == ts[2]
        tpb == IF tpb_in <= 0 THEN 1 ELSE tpb_in
        t == IF denominator = 0 THEN 0 ELSE tpb * numerator * TruncDiv(4, denominator)
    IN  IF denominator = 0 THEN tpb_in * 4
        ELSE IF t <= 0 THEN tpb * 4
        ELSE t

\* lines 105-107 left out: a product <= 0 is returned as it is
calculate_ticks_per_measure_nofallback(ts, tpb_in) ==
    LET tpb == IF tpb_in <= 0 THEN 1 ELSE tpb_in
    IN  IF ts[2] = 0 THEN tpb_in * 4
        ELSE TruncDiv(tpb * ts[1] * 4, ts[2])

\* time_signature is a pair; the denominators of the model are 0 or powers of
\* two, for which 4 / denominator and the product are exact.
calculate_ticks_per_measure(ts, tpb_in) ==
    LET numerator == ts[1]
        denominator == ts[2]
        tpb == IF tpb_in <= 0 THEN 1 ELSE tpb_in
        t == TruncDiv(tpb * numerator * 4, denominator)
    IN  IF denominator = 0 THEN tpb_in * 4
        ELSE IF t <= 0 THEN tpb * 4
        ELSE t

-----------------------------------------------------------------------------
(* gui_converter.py: the legacy helpers *)

\* gui_converter.calculate_ticks_per_measure: no fallback for a result <= 0
legacy_calculate_ticks_per_measure(ts, tpb) ==
    IF ts[2] = 0 THEN tpb * 4
    ELSE TruncDiv(tpb * ts[1] * 4, ts[2])

\* lines 139-152: the table of gui_converter.ticks_to_duration_code, beat
\* values in sixteenths of a beat; no /0.5 and no /32.
legacy_duration_map ==
    << [beat16 |-> 64, code |-> "/1"],   [beat16 |-> 48, code |-> "/2."],
       [beat16 |-> 32, code |-> "/2"],   [beat16 |-> 24, code |-> "/4."],
       [beat16 |-> 16, code |-> "/4"],   [beat16 |-> 12, code |-> "/8."],
       [beat16 |-> 8, code |-> "/8"],    [beat16 |-> 6, code |-> "/16."],
       [beat16 |-> 4, code |-> "/16"],   [beat16 |-> 2, code |-> "/32"],
       [beat16 |-> 1, code |-> "/64"] >>

\* the beat value is three times a power of two: a dotted value of the table
IsDottedBeat(beat16) == beat16 \in {6, 12, 24, 48}

\* line 155: abs(beats - beat_val) < tolerance * beat_val with tolerance 0.05,
\* as the binary floating point of Python computes it. Off the boundary it
\* is the exact comparison 20 * |t/tpb - b| < b. On the boundary (a distance
\* of exactly 5 % of the beat value) the product 0.05 * beat_val is rounded
\* up for the dotted values, where the test succeeds, and the distance is
\* rounded up for the others, where it fails (504 ticks at 480: 
\* 0.050000000000000044 < 0.05 is false; 756 ticks: 0.07499999999999996 <
\* 0.07500000000000001 is true).
WithinTolerance(t, tpb, beat16) ==
    LET distance == 20 * Abs(16 * t - beat16 * tpb)
    IN  \/ distance < beat16 * tpb
        \/ distance = beat16 * tpb /\ IsDottedBeat(beat16)

\* lines 154-156: the first entry of the table that is within the tolerance
RECURSIVE LegacyFirstMatch(_, _, _)
LegacyFirstMatch(t, tpb, k) ==
    IF k > Len(legacy_duration_map) THEN "/?"
    ELSE IF WithinTolerance(t, tpb, legacy_duration_map[k].beat16)
         THEN legacy_duration_map[k].code
         ELSE LegacyFirstMatch(t, tpb, k + 1)

\* gui_converter.ticks_to_duration_code (lines 116-160)
ticks_to_duration_code(t, tpb) ==
    IF t <= 0 \/ tpb <= 0 THEN "/?"
    ELSE LegacyFirstMatch(t, tpb, 1)

-----------------------------------------------------------------------------
(* llm_converter._ticks_to_duration_code *)

\* duration_map with the dotted half written as "/3"
duration_map_misprint ==
    << [beat16 |-> 128, code |-> "/0.5"], [beat16 |-> 64, code |-> "/1"],
       [beat16 |-> 48, code |-> "/3"],    [beat16 |-> 32, code |-> "/2"],
       [beat16 |-> 24, code |-> "/4."],   [beat16 |-> 16, code |-> "/4"],
       [beat16 |-> 12, code |-> "/8."],   [beat16 |-> 8, code |-> "/8"],
       [beat16 |-> 6, code |-> "/16."],   [beat16 |-> 4, code |-> "/16"],
       [beat16 |-> 3, code |-> "/32."],   [beat16 |-> 2, code |-> "/32"],
       [beat16 |-> 1, code |-> "/64"] >>

\* duration_map, beat values in 16ths of a beat
duration_map ==
    << [beat16 |-> 128, code |-> "/0.5"], [beat16 |-> 64, code |-> "/1"],
       [beat16 |-> 48, code |-> "/2."],   [beat16 |-> 32, code |-> "/2"],
       [beat16 |-> 24, code |-> "/4."],   [beat16 |-> 16, code |-> "/4"],
       [beat16 |-> 12, code |-> "/8."],   [beat16 |-> 8, code |-> "/8"],
       [beat16 |-> 6, code |-> "/16."],   [beat16 |-> 4, code |-> "/16"],
       [beat16 |-> 3, code |-> "/32."],   [beat16 |-> 2, code |-> "/32"],
       [beat16 |-> 1, code |-> "/64"] >>

\* line 77 with the tick count taken for the beat count
DifferenceInTicks(t, tpb, beat16) == Abs(16 * t - beat16)

\* abs(beats - beat_val), in units of 1 / (16 * ticks_per_beat) beat
Difference(t, tpb, beat16) == Abs(16 * t - beat16 * tpb)

\* line 78 with the comparison inverted
FartherThan(difference, min_difference) == difference > min_difference

\* line 78 with <= : of two entries equally near, the later one wins
CloserThanOrEqual(difference, min_difference) == difference <= min_difference

\* the comparison of line 78
CloserThan(difference, min_difference) == difference < min_difference

\* the loop of lines 72-80 from entry k on; min_difference = -1 stands for inf
RECURSIVE BestMatch(_, _, _, _)
BestMatch(t, tpb, k, best) ==
    IF k > Len(duration_map) THEN best
    ELSE LET difference == Difference(t, tpb, duration_map[k].beat16)
         IN  IF best.min_difference = -1 \/ CloserThan(difference, best.min_difference)
             THEN BestMatch(t, tpb, k + 1,
                            [min_difference |-> difference, code |-> duration_map[k].code])
             ELSE BestMatch(t, tpb, k + 1, best)

NearestMatch(t, tpb) == BestMatch(t, tpb, 1, [min_difference |-> -1, code |-> "None"])

\* line 89: min_difference > max_allowed_error
ExceedsMaxError(min_difference, tpb) ==
    min_difference * MAX_QUANTIZATION_ERROR_BEATS.den
        > MAX_QUANTIZATION_ERROR_BEATS.num * 16 * tpb

\* line 91 active: beyond the tolerance "/?" is returned
ReturnedCodeWithCutoff(match, tpb) ==
    IF ExceedsMaxError(match.min_difference, tpb) THEN "/?" ELSE match.code

\* what the function returns once the inputs are valid and a match exists
ReturnedCode(match, tpb) == match.code

\* line 58 with < : zero ticks and zero ticks per beat pass the test
InvalidInputsStrict(t, tpb) == t < 0 \/ tpb < 0

\* the test of line 58
InvalidInputs(t, tpb) == t <= 0 \/ tpb <= 0

\* the value returned, or the exception the division of line 63 raises
_ticks_to_duration_code(t, tpb) ==
    IF InvalidInputs(t, tpb) THEN "/?"
    ELSE IF tpb = 0 THEN "ZeroDivisionError"
    ELSE LET match == NearestMatch(t, tpb)
         IN  IF match.code = "None" THEN "/?" ELSE ReturnedCode(match, tpb)

\* whether the call logs the low-confidence warning of line 90
QuantizationWarning(t, tpb) ==
    /\ t > 0 /\ tpb > 0
    /\ ExceedsMaxError(NearestMatch(t, tpb).min_difference, tpb)

-----------------------------------------------------------------------------
(* midi_parser.parse_midi_file *)

\* the messages the model feeds to the parser
MsgNotes == {60, 64}
MsgVelocities == {80}
MsgTimes == {0, 480}
MsgTimeSigs == {<<3, 4>>}
MsgTempos == {500000}
MsgTempoTimes == {0}
MidiTpbs == {0, 240}

NoteMsgs ==
    [type : {"note_on"}, note : MsgNotes, velocity : MsgVelocities \cup {0}, time : MsgTimes]
    \cup [type : {"note_off"}, note : MsgNotes, velocity : {0}, time : MsgTimes]
MetaMsgs ==
    {[type |-> "time_signature", numerator |-> ts[1], denominator |-> ts[2], time |-> t] :
        ts \in MsgTimeSigs, t \in MsgTimes}
    \cup [type : {"set_tempo"}, tempo : MsgTempos, time : MsgTempoTimes]
Msgs == NoteMsgs \cup MetaMsgs

\* round(mido.tempo2bpm(tempo), 2) as [whole, hundredths]
tempo2bpm(tempo) ==
    LET whole == 60000000 \div tempo
        rest == 60000000 % tempo
        cents == (rest * 100 + tempo \div 2) \div tempo
    IN  IF cents = 100 THEN [whole |-> whole + 1, hundredths |-> 0]
        ELSE [whole |-> whole, hundredths |-> cents]

\* note_num in active_notes
IsActive(notes, note_num) == \E k \in 1..Len(notes) : notes[k].note = note_num

\* active_notes[note_num]
ActiveNote(notes, note_num) ==
    notes[CHOOSE k \in 1..Len(notes) : notes[k].note = note_num]

\* del active_notes[note_num]
DelActive(notes, note_num) == SelectSeq(notes, LAMBDA a : a.note # note_num)

NoteEvent(start_tick, note_num, velocity, duration) ==
    [tick |-> start_tick, type |-> "note", pitch |-> note_num,
     velocity |-> velocity, duration |-> duration]

\* the duration test as >= 0 : a note closed at its start tick is kept
KeepsNoteNonNegative(duration) == duration >= 0

\* lines 141 and 160: a closed note is kept only with a positive duration
KeepsNote(duration) == duration > 0

\* a re-trigger that overwrites the open occurrence without emitting it
CloseRetriggeredDropsPrior(events, prev_note, note_num, tick) == events

\* the open occurrence closed one tick behind the re-trigger
CloseRetriggeredLate(events, prev_note, note_num, tick) ==
    Append(events, NoteEvent(prev_note.start_tick, note_num, prev_note.velocity,
                             tick - prev_note.start_tick + 1))

\* lines 136-148: events after closing the open occurrence of a re-triggered pitch
CloseRetriggered(events, prev_note, note_num, tick) ==
    LET duration == tick - prev_note.start_tick
    IN  IF KeepsNote(duration)
        THEN Append(events, NoteEvent(prev_note.start_tick, note_num,
                                      prev_note.velocity, duration))
        ELSE events

\* the closed note emitted at the tick of the note_off instead of its start
CloseNoteAtCloseTick(events, open_note, note_num, tick) ==
    Append(events, NoteEvent(tick, note_num, open_note.velocity,
                             tick - open_note.start_tick))

\* lines 155-169: events after a note_off (or note_on with velocity 0)
CloseNote(events, open_note, note_num, tick) ==
    LET duration == tick - open_note.start_tick
    IN  IF KeepsNote(duration)
        THEN Append(events, NoteEvent(open_note.start_tick, note_num,
                                      open_note.velocity, duration))
        ELSE events

\* a note_off without an open note emitted as a note of duration 0
OrphanNoteOffEmitted(events, note_num, tick) ==
    Append(events, NoteEvent(tick, note_num, 0, 0))

\* line 170: a note_off for a pitch that is not open is ignored
OrphanNoteOff(events, note_num, tick) == events

\* line 84
EffectiveTpb(declared) == IF declared > 0 THEN declared ELSE DEFAULT_TICKS_PER_BEAT

\* the fallback duration as the configured default instead of the file's tpb
FallbackDurationDefault(tpb) == DEFAULT_TICKS_PER_BEAT

\* line 197: the fallback duration of a note still open at the end of the track
FallbackDuration(tpb) == tpb

\* lines 190-203: the notes still open, closed in the order of the dict
RECURSIVE ForceClose(_, _, _)
ForceClose(events, notes, tpb) ==
    IF notes = <<>> THEN events
    ELSE ForceClose(Append(events, NoteEvent(notes[1].start_tick, notes[1].note,
                                             notes[1].velocity, FallbackDuration(tpb))),
                    Tail(notes), tpb)

\* a call logging.<level>(...) at a line of midi_parser.py, about a note
LogRecord(level, line, note_num) == [level |-> level, line |-> line, note |-> note_num]

\* lines 69-125: the logging calls up to the first message of track 0
LoadLog(declared) ==
    <<LogRecord("INFO", 69, -1)>>
    \o (IF declared <= 0 THEN <<LogRecord("WARNING", 86, -1)>> ELSE <<>>)
    \o <<LogRecord("INFO", 112, -1), LogRecord("DEBUG", 125, -1)>>

\* lines 133-185: the logging calls of the handler of one message, tick
\* being the tick of the message
MsgLog(msg, notes, tick) ==
    IF msg.type = "note_on" /\ msg.velocity > 0
    THEN IF IsActive(notes, msg.note)
         THEN <<LogRecord("WARNING", 139, msg.note)>> ELSE <<>>
    ELSE IF msg.type = "note_off" \/ (msg.type = "note_on" /\ msg.velocity = 0)
    THEN IF IsActive(notes, msg.note)
              /\ ~KeepsNote(tick - ActiveNote(notes, msg.note).start_tick)
         THEN <<LogRecord("DEBUG", 167, msg.note)>> ELSE <<>>
    ELSE IF msg.type = "time_signature" THEN <<LogRecord("DEBUG", 177, -1)>>
    ELSE IF msg.type = "set_tempo" THEN <<LogRecord("DEBUG", 185, -1)>>
    ELSE <<>>

\* lines 190-198: the warnings about the notes open at the end of a track
ForceCloseLog(notes) ==
    IF notes = <<>> THEN <<>>
    ELSE <<LogRecord("WARNING", 191, -1)>>
         \o [k \in 1..Len(notes) |-> LogRecord("WARNING", 198, notes[k].note)]

\* lines 63-115: the file is loaded, tpb and the default metadata are set
LoadFile ==
    /\ pc = "load"
    /\ ticks_per_beat' = EffectiveTpb(midi_tpb)
    /\ time_signature' = DEFAULT_TIME_SIGNATURE
    /\ pc' = "parse"
    /\ logged' = LoadLog(midi_tpb)
    /\ UNCHANGED <<midi_tpb, initial_time_sig_found, track_index, msg_count,
                   current_tick, active_notes, track_events, tracks_data,
                   conv_vars, quant_vars,
                   app_vars>>

\* lines 127-185: one message of the current track (and, for track 0, its
\* part in the scan for the initial metadata of lines 98-111)
ParseMsg(msg) ==
    /\ pc = "parse"
    /\ msg_count < MaxMsgs
    /\ msg_count' = msg_count + 1
    /\ current_tick' = current_tick + msg.time
    /\ logged' = MsgLog(msg, active_notes, current_tick')
    /\ IF msg.type = "note_on" /\ msg.velocity > 0
       THEN /\ track_events' =
                  IF IsActive(active_notes, msg.note)
                  THEN CloseRetriggered(track_events, ActiveNote(active_notes, msg.note),
                                        msg.note, current_tick')
                  ELSE track_events
            /\ active_notes' =
                  Append(DelActive(active_notes, msg.note),
                         [note |-> msg.note, start_tick |-> current_tick',
                          velocity |-> msg.velocity])
       ELSE IF msg.type = "note_off" \/ (msg.type = "note_on" /\ msg.velocity = 0)
       THEN IF IsActive(active_notes, msg.note)
            THEN /\ track_events' = CloseNote(track_events,
                                              ActiveNote(active_notes, msg.note),
                                              msg.note, current_tick')
                 /\ active_notes' = DelActive(active_notes, msg.note)
            ELSE /\ track_events' = OrphanNoteOff(track_events, msg.note, current_tick')
                 /\ UNCHANGED active_notes
       ELSE IF msg.type = "time_signature"
       THEN /\ track_events' = Append(track_events,
                  [tick |-> current_tick', type |-> "timesig",
                   numerator |-> msg.numerator, denominator |-> msg.denominator])
            /\ UNCHANGED active_notes
       ELSE IF msg.type = "set_tempo"
       THEN /\ track_events' = Append(track_events,
                  [tick |-> current_tick', type |-> "tempo", bpm |-> tempo2bpm(msg.tempo)])
            /\ UNCHANGED active_notes
       ELSE UNCHANGED <<track_events, active_notes>>
    /\ IF track_index = 0 /\ ~initial_time_sig_found /\ msg.type = "time_signature"
       THEN /\ time_signature' = <<msg.numerator, msg.denominator>>
            /\ initial_time_sig_found' = TRUE
       ELSE UNCHANGED <<time_signature, initial_time_sig_found>>
    /\ UNCHANGED <<pc, midi_tpb, ticks_per_beat, track_index, tracks_data,
                   conv_vars, quant_vars,
                   app_vars>>

\* lines 189-207: the end of the current track; more = the file has another track
EndOfTrack(more) ==
    /\ pc = "parse"
    /\ more => track_index + 1 < MaxTracks
    /\ tracks_data' = Append(tracks_data,
           SortByKey(ForceClose(track_events, active_notes, ticks_per_beat), "tick"))
    /\ track_events' = <<>>
    /\ active_notes' = <<>>
    /\ current_tick' = 0
    /\ IF more THEN /\ track_index' = track_index + 1
                    /\ pc' = "parse"
                    /\ logged' = ForceCloseLog(active_notes) \o <<LogRecord("DEBUG", 125, -1)>>
                    /\ UNCHANGED msg_count
               ELSE /\ track_index' = 0
                    /\ pc' = "parsed"
                    /\ logged' = ForceCloseLog(active_notes) \o <<LogRecord("INFO", 218, -1)>>
                    /\ msg_count' = 0
    /\ UNCHANGED <<midi_tpb, ticks_per_beat, time_signature, initial_time_sig_found,
                   conv_vars, quant_vars,
                   app_vars>>

-----------------------------------------------------------------------------
(* llm_converter.midi_to_llm_text *)

\* track_names.get(track_index, ...): the files of the model name no track
TrackName(index) == "Unbenannter Track " \o ToString(index)

\* f"T{track_index} {track_name}:"
TrackHeader(index) == "T" \o ToString(index) \o " " \o TrackName(index) \o ":"

KeyLine == [kind |-> "key", track |-> -1,
            header |-> "Key: " \o DEFAULT_KEY_SIGNATURE, body |-> <<>>]
TrackBlock(index, body) ==
    [kind |-> "track", track |-> index, header |-> TrackHeader(index), body |-> body]
ErrorBlock(index) ==
    [kind |-> "error", track |-> index, header |-> TrackHeader(index),
     body |-> <<"FEHLER: Konnte Taktlänge nicht berechnen.">>]

\* the text of one element of output_lines
LineText(line) ==
    IF line.kind = "key" THEN line.header
    ELSE line.header \o "\n" \o Flatten(line.body)

RECURSIVE LineTexts(_)
LineTexts(lines) ==
    IF lines = <<>> THEN <<>> ELSE <<LineText(lines[1])>> \o LineTexts(Tail(lines))

\* "| 1", "|" and f"|{bar_num_marker}" as symbols
OpeningBar == <<"|", " ", "1">>
PlainBar == <<"|">>
BarToken(m) == IF m % 5 = 0 THEN <<"|", " ", ToString(m)>> ELSE PlainBar
EmptyTrackBody == <<"|", " ", "1", " ", "|">>

\* the threshold test as > : a gap of exactly the minimum gets no rest
IsRestGapStrict(rest_duration) == rest_duration > MIN_REST_DURATION_TICKS

\* line 160: a gap is long enough for a rest
IsRestGap(rest_duration) == rest_duration >= MIN_REST_DURATION_TICKS

RestObject(at_tick, rest_duration, tpb) ==
    [tick |-> at_tick, type |-> "rest",
     code |-> "R" \o _ticks_to_duration_code(rest_duration, tpb),
     duration_ticks |-> rest_duration]

\* lines 159-163: the objects after the rest check for an event at event_tick
WithRest(objects, event_tick, end_tick, tpb) ==
    IF IsRestGap(event_tick - end_tick)
    THEN Append(objects, RestObject(end_tick, event_tick - end_tick, tpb))
    ELSE objects

\* line 173: the marker of the dynamic of a note
DynamicObject(event) ==
    [tick |-> event.tick, type |-> "dynamic",
     code |-> "dyn(" \o velocity_to_dynamic(event.velocity) \o ")"]

\* lines 171-174 without the test of line 172: every note gets a marker
WithDynamicAlways(objects, event, dynamic) == Append(objects, DynamicObject(event))

\* lines 171-174
WithDynamic(objects, event, dynamic) ==
    IF velocity_to_dynamic(event.velocity) # dynamic
    THEN Append(objects, DynamicObject(event))
    ELSE objects

NoteObject(event) ==
    [tick |-> event.tick, type |-> "note", pitch_num |-> event.pitch,
     pitch_str |-> midi_note_to_llm_pitch(event.pitch),
     duration_ticks |-> event.duration]

TimeSigObject(event) ==
    [tick |-> event.tick, type |-> "timesig",
     code |-> "[" \o ToString(event.numerator) \o "/" \o ToString(event.denominator) \o "]"]

\* the test left out: a bar line is appended after a bar line too
NeedsBarAlways(parts) == TRUE

\* lines 223, 291 and 295: a bar line is appended only if the last part is
\* not one already
NeedsBar(parts) == parts = <<>> \/ ~StartsWith(parts[Len(parts)], PlainBar)

\* lines 219-226 and 289-294: the bar lines of measures from_m .. to_m
RECURSIVE AddBars(_, _, _)
AddBars(parts, from_m, to_m) ==
    IF from_m > to_m THEN parts
    ELSE LET marked == (from_m % 5 = 0)
             next == IF NeedsBar(parts)
                     THEN Append(parts, BarToken(from_m))
                     ELSE IF marked
                          THEN [parts EXCEPT ![Len(parts)] = BarToken(from_m)]
                          ELSE parts
         IN  AddBars(next, from_m + 1, to_m)

\* lines 235-241: the index after the notes that start at the tick of objects[k]
RECURSIVE ChordEnd(_, _, _)
ChordEnd(objects, j, tick) ==
    IF j <= Len(objects) /\ objects[j].tick = tick /\ objects[j].type = "note"
    THEN ChordEnd(objects, j + 1, tick)
    ELSE j

RECURSIVE MaxDuration(_)
MaxDuration(notes) ==
    IF Len(notes) = 1 THEN notes[1].duration_ticks
    ELSE LET m == MaxDuration(Tail(notes))
         IN  IF notes[1].duration_ticks >= m THEN notes[1].duration_ticks ELSE m

RECURSIVE PitchStrs(_)
PitchStrs(notes) ==
    IF notes = <<>> THEN <<>> ELSE <<notes[1].pitch_str>> \o PitchStrs(Tail(notes))

\* line 243: the order of the pitches inside a chord
ChordOrder(chord_notes) == SortByKey(chord_notes, "pitch_num")

\* the duration of the lowest note of the chord instead of the largest
ChordDurationOfLowest(chord_notes) == ChordOrder(chord_notes)[1].duration_ticks

\* line 247: the duration that gives the code of a note or chord
ChordDuration(chord_notes) == MaxDuration(chord_notes)

\* lines 243-255: the token of a note or chord
NoteToken(chord_notes, tpb) ==
    JoinStr(PitchStrs(ChordOrder(chord_notes)), "+")
        \o _ticks_to_duration_code(ChordDuration(chord_notes), tpb)

\* line 263
IsWholeMeasureRest(obj, tpm) == obj.code = "R/1" /\ obj.tick % tpm = 0

\* line 288: the trailing bar lines are added
AddsTrailingBar(final_measure, measure) == final_measure >= measure

\* lines 286-296
WithTrailingBar(parts, end_tick, measure, tpm) ==
    LET final_measure == (end_tick \div tpm) + 1
    IN  IF AddsTrailingBar(final_measure, measure)
        THEN LET barred == AddBars(parts, measure + 1, final_measure)
             IN  IF NeedsBar(barred)
                 THEN Append(barred, PlainBar)
                 ELSE barred
        ELSE parts

\* lines 301-312
CleanBody(parts) ==
    LET filtered == SelectSeq(parts, LAMBDA part : part # <<>>)
        joined == Join(filtered, <<" ">>)
        step1 == Replace(Replace(joined, <<" ", "|", " ", "|">>, <<" ", "|">>),
                         <<"|", "|">>, <<"|">>)
        step2 == Strip(Replace(step1, <<" ", "|">>, <<"|">>))
        step3 == Strip(Replace(step2, <<"|">>, <<" ", "|", " ">>))
        step4 == JoinSplit(step3)
    IN  IF step4 = <<"|">> THEN EmptyTrackBody ELSE step4

\* lines 111-128: the call of midi_to_llm_text on the parser's result
StartConversion ==
    /\ pc = "parsed"
    /\ pc' = "convert"
    /\ track_index' = 0
    /\ output_lines' = <<KeyLine>>
    /\ UNCHANGED <<ticks_per_beat, track_events, tracks_data, parser_vars, ev_i,
                   musical_objects, last_event_end_tick, current_dynamic,
                   ticks_per_measure, track_string_parts, current_measure, i,
                   result, quant_vars,
                   app_vars>>

\* line 151 as a break: the loop over the tracks ends at the failing track
AbortAtErrorTrack(index) == Len(tracks_data)

\* line 151, continue: the loop goes on with the next track
SkipErrorTrack(index) == index + 1

\* line 142 left out: the dynamic of the previous track is carried over
CarriedDynamic(previous) == previous

\* line 142: current_dynamic = None
InitialDynamic(previous) == "None"

\* lines 131-153: the head of the loop over the tracks
BeginTrack ==
    /\ pc = "convert"
    /\ track_index < Len(tracks_data)
    /\ LET events == tracks_data[track_index + 1]
           tpm == calculate_ticks_per_measure(time_signature, ticks_per_beat)
       IN  IF events = <<>>
           THEN \* lines 135-137: continue
                /\ track_index' = track_index + 1
                /\ UNCHANGED <<pc, track_events, output_lines, ev_i, musical_objects,
                               last_event_end_tick, current_dynamic, ticks_per_measure,
                               track_string_parts, current_measure, i>>
           ELSE IF tpm <= 0
           THEN \* lines 146-151
                /\ output_lines' = Append(output_lines, ErrorBlock(track_index))
                /\ track_index' = SkipErrorTrack(track_index)
                /\ UNCHANGED <<pc, track_events, ev_i, musical_objects,
                               last_event_end_tick, current_dynamic, ticks_per_measure,
                               track_string_parts, current_measure, i>>
           ELSE /\ track_events' = events
                /\ ev_i' = 1
                /\ musical_objects' = <<>>
                /\ last_event_end_tick' = 0
                /\ current_dynamic' = InitialDynamic(current_dynamic)
                /\ ticks_per_measure' = tpm
                /\ pc' = "pass1"
                /\ UNCHANGED <<track_index, output_lines, track_string_parts,
                               current_measure, i>>
    /\ UNCHANGED <<ticks_per_beat, tracks_data, parser_vars, result, quant_vars,
                   app_vars>>

\* a time-signature event gives the length of the measures from there on
TicksPerMeasureRecomputed(event, tpm, tpb) ==
    IF event.type = "timesig"
    THEN calculate_ticks_per_measure(<<event.numerator, event.denominator>>, tpb)
    ELSE tpm

\* lines 155-191 assign nothing to ticks_per_measure, whatever the event
TicksPerMeasureAfter(event, tpm, tpb) == tpm

\* lines 155-191: one event of pass 1
Pass1Event ==
    /\ pc = "pass1"
    /\ ev_i <= Len(track_events)
    /\ LET event == track_events[ev_i]
           rested == WithRest(musical_objects, event.tick, last_event_end_tick,
                              ticks_per_beat)
       IN  IF event.type = "note"
           THEN /\ musical_objects' =
                       Append(WithDynamic(rested, event, current_dynamic), NoteObject(event))
                /\ current_dynamic' = velocity_to_dynamic(event.velocity)
                /\ last_event_end_tick' = event.tick + event.duration
           ELSE IF event.type = "timesig"
           THEN /\ musical_objects' = Append(rested, TimeSigObject(event))
                /\ UNCHANGED <<current_dynamic, last_event_end_tick>>
           ELSE /\ musical_objects' = rested
                /\ UNCHANGED <<current_dynamic, last_event_end_tick>>
    /\ ticks_per_measure' = TicksPerMeasureAfter(track_events[ev_i], ticks_per_measure,
                                                 ticks_per_beat)
    /\ ev_i' = ev_i + 1
    /\ UNCHANGED <<pc, ticks_per_beat, track_index, track_events, tracks_data,
                   parser_vars, track_string_parts,
                   current_measure, i, output_lines, result, quant_vars,
                   app_vars>>

\* lines 193-207: the objects are sorted and the body is opened
BeginPass2 ==
    /\ pc = "pass1"
    /\ ev_i > Len(track_events)
    /\ IF musical_objects # <<>>
       THEN /\ musical_objects' = SortByKey(musical_objects, "tick")
            /\ track_string_parts' = <<OpeningBar>>
            /\ current_measure' = 1
            /\ i' = 1
            /\ pc' = "pass2"
            /\ UNCHANGED <<track_index, track_events, ev_i, last_event_end_tick,
                           current_dynamic, ticks_per_measure, output_lines>>
       ELSE /\ output_lines' = Append(output_lines, TrackBlock(track_index, EmptyTrackBody))
            /\ track_index' = track_index + 1
            /\ track_string_parts' = <<>>
            /\ current_measure' = 0
            /\ pc' = "convert"
            /\ UNCHANGED <<track_events, ev_i, musical_objects, last_event_end_tick,
                           current_dynamic, ticks_per_measure, i>>
    /\ UNCHANGED <<ticks_per_beat, tracks_data, parser_vars, result, quant_vars,
                   app_vars>>

\* line 255 with an advance of 0: the loop stays at the same object
AdvanceIndexNone(from, j) == 0

\* line 255: advance_index = j - i, the index is set behind the chord
AdvanceIndex(from, j) == j - from

\* lines 211-282: one iteration of the formatting loop
Pass2Object ==
    /\ pc = "pass2"
    /\ i <= Len(musical_objects)
    /\ LET obj == musical_objects[i]
           measure_at_tick == (obj.tick \div ticks_per_measure) + 1
           barred == IF measure_at_tick > current_measure
                     THEN AddBars(track_string_parts, current_measure + 1, measure_at_tick)
                     ELSE track_string_parts
           j == ChordEnd(musical_objects, i + 1, obj.tick)
       IN  /\ current_measure' = IF measure_at_tick > current_measure
                                 THEN measure_at_tick ELSE current_measure
           /\ IF obj.type = "note"
              THEN /\ track_string_parts' =
                          Append(barred, <<NoteToken(SubSeq(musical_objects, i, j - 1),
                                                     ticks_per_beat)>>)
                   /\ i' = i + AdvanceIndex(i, j)
              ELSE IF obj.type = "rest"
              THEN /\ track_string_parts' =
                          IF IsWholeMeasureRest(obj, ticks_per_measure)
                          THEN barred ELSE Append(barred, <<obj.code>>)
                   /\ i' = i + 1
              ELSE /\ track_string_parts' = Append(barred, <<obj.code>>)
                   /\ i' = i + 1
    /\ UNCHANGED <<pc, ticks_per_beat, track_index, track_events, tracks_data,
                   parser_vars, ev_i, musical_objects, last_event_end_tick,
                   current_dynamic, ticks_per_measure, output_lines, result,
                   quant_vars,
                   app_vars>>

\* lines 285-314: trailing bar line, clean-up of the body, the block of the track
FinishTrack ==
    /\ pc = "pass2"
    /\ i > Len(musical_objects)
    /\ track_string_parts' = WithTrailingBar(track_string_parts, last_event_end_tick,
                                             current_measure, ticks_per_measure)
    /\ output_lines' = Append(output_lines,
                              TrackBlock(track_index, CleanBody(track_string_parts')))
    /\ track_index' = track_index + 1
    /\ pc' = "convert"
    /\ UNCHANGED <<track_events, ev_i, musical_objects, last_event_end_tick,
                   current_dynamic, ticks_per_measure, current_measure, i>>
    /\ UNCHANGED <<ticks_per_beat, tracks_data, parser_vars, result, quant_vars,
                   app_vars>>

\* line 318
ReturnDocument ==
    /\ pc = "convert"
    /\ track_index = Len(tracks_data)
    /\ result' = JoinStr(LineTexts(output_lines), "\n\n")
    /\ pc' = "done"
    /\ UNCHANGED <<ticks_per_beat, track_index, track_events, tracks_data, parser_vars,
                   ev_i, musical_objects, last_event_end_tick, current_dynamic,
                   ticks_per_measure, track_string_parts, current_measure, i,
                   output_lines, quant_vars,
                   app_vars>>

Convert ==
    \/ StartConversion
    \/ BeginTrack
    \/ Pass1Event
    \/ BeginPass2
    \/ Pass2Object
    \/ FinishTrack
    \/ ReturnDocument

-----------------------------------------------------------------------------
(* Spec: a MIDI file is parsed and the result converted *)

\* tk.NORMAL and tk.DISABLED
NORMAL == "normal"
DISABLED == "disabled"

\* the value None of an Optional[str], and a str
None == [is_none |-> TRUE, text |-> <<>>]
Str(text) == [is_none |-> FALSE, text |-> text]

\* the application after MidiConverterApp.__init__ (file_handler.py lines
\* 37-88): no settings file written or read yet, no input file chosen, the
\* widgets in their initial state, no conversion running
AppIdle ==
    /\ settings_file = [exists |-> FALSE, text |-> <<>>]
    /\ path = <<>>
    /\ saved = FALSE
    /\ loaded_path = None
    /\ input_path_var = ""
    /\ convert_midi_to_text_button = NORMAL
    /\ browse_button = NORMAL
    /\ input_path_entry = NORMAL
    /\ threads = <<>>
    /\ after_queue = <<>>
    /\ messagebox = "none"
    /\ status = "none"

Idle ==
    /\ track_index = 0
    /\ msg_count = 0
    /\ current_tick = 0
    /\ active_notes = <<>>
    /\ logged = <<>>
    /\ track_events = <<>>
    /\ ev_i = 1
    /\ musical_objects = <<>>
    /\ last_event_end_tick = 0
    /\ current_dynamic = "None"
    /\ ticks_per_measure = 0
    /\ track_string_parts = <<>>
    /\ current_measure = 0
    /\ i = 1
    /\ output_lines = <<>>
    /\ result = ""
    /\ AppIdle

QuantIdle ==
    /\ ticks = 0
    /\ best_match_code = "None"
    /\ low_confidence = FALSE

Init ==
    /\ pc = "load"
    /\ midi_tpb \in MidiTpbs
    /\ ticks_per_beat = 0
    /\ time_signature = DEFAULT_TIME_SIGNATURE
    /\ initial_time_sig_found = FALSE
    /\ tracks_data = <<>>
    /\ Idle
    /\ QuantIdle

Next ==
    \/ LoadFile
    \/ \E msg \in Msgs : ParseMsg(msg)
    \/ \E more \in BOOLEAN : EndOfTrack(more)
    \/ Convert

Spec == Init /\ [][Next]_vars

-----------------------------------------------------------------------------
(* ConvSpec: midi_to_llm_text is called on a parser result drawn from a    *)
(* bounded set: events sorted by tick, notes with a positive duration, no  *)
(* two notes of one pitch overlapping                                      *)

EvTicks == {0, 480, 484, 485, 960}
EvNotes ==
    {[pitch |-> 60, velocity |-> 80, duration |-> 480],
     [pitch |-> 64, velocity |-> 80, duration |-> 480],
     [pitch |-> 67, velocity |-> 70, duration |-> 960]}
EvMetaTicks == {0, 4, 960}
ConvTpbs == {480, 120}

Events ==
    {NoteEvent(t, n.pitch, n.velocity, n.duration) : t \in EvTicks, n \in EvNotes}
    \cup {[tick |-> t, type |-> "timesig", numerator |-> 3, denominator |-> 4] :
            t \in EvMetaTicks}
    \cup {[tick |-> t, type |-> "tempo", bpm |-> tempo2bpm(500000)] : t \in EvMetaTicks}

IsParserOutput(s) ==
    /\ \A k \in 1..(Len(s) - 1) : s[k].tick <= s[k + 1].tick
    /\ \A k, l \in 1..Len(s) :
         (k # l /\ s[k].type = "note" /\ s[l].type = "note" /\ s[k].pitch = s[l].pitch)
            => (s[k].tick + s[k].duration <= s[l].tick \/ s[l].tick + s[l].duration <= s[k].tick)

EventListsOfLen(n) == {s \in [1..n -> Events] : IsParserOutput(s)}

EventListsUpTo(m) == UNION {EventListsOfLen(n) : n \in 0..m}

EventLists == EventListsUpTo(MaxEvents)

\* ticks_per_beat and metadata['time_signature'] of the input: 4/4 at the
\* rates of ConvTpbs, and the one pair for which ticks_per_measure is <= 0
ConvSettings ==
    {[tpb |-> t, ts |-> DEFAULT_TIME_SIGNATURE] : t \in ConvTpbs}
    \cup {[tpb |-> 0, ts |-> <<4, 0>>]}

\* tracks_data of the input: one track of at most MaxEvents events, or two
\* tracks of at most MaxPairEvents events together
TrackLists ==
    {<<events>> : events \in EventLists}
    \cup UNION {EventListsOfLen(n) \X EventListsUpTo(MaxPairEvents - n) :
                   n \in 0..MaxPairEvents}

ConvInit ==
    /\ pc = "parsed"
    /\ midi_tpb = 0
    /\ \E setting \in ConvSettings :
          /\ ticks_per_beat = setting.tpb
          /\ time_signature = setting.ts
    /\ initial_time_sig_found = FALSE
    /\ tracks_data \in TrackLists
    /\ Idle
    /\ QuantIdle

ConvNext == Convert

ConvSpec == ConvInit /\ [][ConvNext]_vars

-----------------------------------------------------------------------------
(* QSpec: _ticks_to_duration_code is called on its own *)

QTpbs == {-1, 0, 1, 7, 96, 480}

Quantize ==
    /\ pc = "quantize"
    /\ best_match_code' = _ticks_to_duration_code(ticks, ticks_per_beat)
    /\ low_confidence' = QuantizationWarning(ticks, ticks_per_beat)
    /\ pc' = "quantized"
    /\ UNCHANGED <<ticks, ticks_per_beat, track_index, track_events, tracks_data,
                   parser_vars, conv_vars,
                   app_vars>>

QInit ==
    /\ pc = "quantize"
    /\ ticks \in -1..MaxTicks
    /\ ticks_per_beat \in QTpbs
    /\ best_match_code = "None"
    /\ low_confidence = FALSE
    /\ midi_tpb = 0
    /\ time_signature = DEFAULT_TIME_SIGNATURE
    /\ initial_time_sig_found = FALSE
    /\ tracks_data = <<>>
    /\ Idle

QNext == Quantize

QSpec == QInit /\ [][QNext]_vars

-----------------------------------------------------------------------------
(* LQSpec: the legacy ticks_to_duration_code of gui_converter.py is called *)
(* on its own, on the inputs of QInit                                      *)

LegacyQuantize ==
    /\ pc = "quantize"
    /\ best_match_code' = ticks_to_duration_code(ticks, ticks_per_beat)
    /\ pc' = "legacy_quantized"
    /\ UNCHANGED <<ticks, low_confidence, ticks_per_beat, track_index, track_events,
                   tracks_data, parser_vars, conv_vars,
                   app_vars>>

LQNext == LegacyQuantize

LQSpec == QInit /\ [][LQNext]_vars

-----------------------------------------------------------------------------
(* MSpec: calculate_ticks_per_measure, of utils.py or of gui_converter.py, *)
(* is called on its own                                                    *)

MaxNumerator == 7
MDenominators == {-2, 0, 1, 2, 4, 8, 16}
MTpbs == {-1, 0, 1, 3, 96, 480}

Measure ==
    /\ pc = "measure"
    /\ ticks_per_measure' = calculate_ticks_per_measure(time_signature, ticks_per_beat)
    /\ pc' = "measured"
    /\ UNCHANGED <<ticks_per_beat, track_index, track_events, tracks_data, parser_vars,
                   ev_i, musical_objects, last_event_end_tick, current_dynamic,
                   track_string_parts, current_measure, i, output_lines, result,
                   quant_vars,
                   app_vars>>

LegacyMeasure ==
    /\ pc = "measure"
    /\ ticks_per_measure' = legacy_calculate_ticks_per_measure(time_signature, ticks_per_beat)
    /\ pc' = "legacy_measured"
    /\ UNCHANGED <<ticks_per_beat, track_index, track_events, tracks_data, parser_vars,
                   ev_i, musical_objects, last_event_end_tick, current_dynamic,
                   track_string_parts, current_measure, i, output_lines, result,
                   quant_vars,
                   app_vars>>

MInit ==
    /\ pc = "measure"
    /\ time_signature \in (-1..MaxNumerator) \X MDenominators
    /\ ticks_per_beat \in MTpbs
    /\ midi_tpb = 0
    /\ initial_time_sig_found = FALSE
    /\ tracks_data = <<>>
    /\ Idle
    /\ QuantIdle

MNext == Measure \/ LegacyMeasure

MSpec == MInit /\ [][MNext]_vars

-----------------------------------------------------------------------------
(* SettingsSpec: settings_manager.save_musescore_path is called with a     *)
(* path and settings_manager.load_musescore_path reads the file back.  The *)
(* text of the file is a sequence of symbols: the key, single characters   *)
(* of the path and the line end.                                           *)

\* line 21, one symbol of the text
MUSESCORE_PATH_KEY == "musescore_path"

MaxPathLen == 3
PathChars == {"a", " ", "=", "'", "\""}
Paths == UNION {[1..n -> PathChars] : n \in 0..MaxPathLen}

Whitespace == {" ", "\n"}
Quotes == {"'", "\""}

\* s.lstrip(chars), s.rstrip(chars) and s.strip(chars) on symbol sequences
RECURSIVE LStripOf(_, _)
LStripOf(s, chars) ==
    IF s # <<>> /\ s[1] \in chars THEN LStripOf(Tail(s), chars) ELSE s

RECURSIVE RStripOf(_, _)
RStripOf(s, chars) ==
    IF s # <<>> /\ s[Len(s)] \in chars
    THEN RStripOf(SubSeq(s, 1, Len(s) - 1), chars) ELSE s

StripOf(s, chars) == LStripOf(RStripOf(s, chars), chars)

\* for line in f: the lines of a text, each with its line end
RECURSIVE Lines(_)
Lines(text) ==
    IF text = <<>> THEN <<>>
    ELSE IF \E k \in 1..Len(text) : text[k] = "\n"
         THEN LET k == CHOOSE n \in 1..Len(text) :
                          text[n] = "\n" /\ \A m \in 1..(n - 1) : text[m] # "\n"
              IN  <<SubSeq(text, 1, k)>> \o Lines(SubSeq(text, k + 1, Len(text)))
         ELSE <<text>>

\* s.split(sep, 1)[1]: what follows the first sep of s (s holds one)
AfterFirst(s, sep) ==
    LET k == CHOOSE n \in 1..Len(s) : s[n] = sep /\ \A m \in 1..(n - 1) : s[m] # sep
    IN  SubSeq(s, k + 1, Len(s))

\* line 86: the line save_musescore_path writes
SettingsLine(p) == <<MUSESCORE_PATH_KEY, " ", "=", " ">> \o p \o <<"\n">>

\* lines 47-57: the value of the first line that starts with the key and "="
RECURSIVE LoadFromLines(_)
LoadFromLines(lines) ==
    IF lines = <<>> THEN None
    ELSE LET line == StripOf(lines[1], Whitespace)
         IN  IF StartsWith(line, <<MUSESCORE_PATH_KEY, "=">>)
             THEN Str(StripOf(StripOf(AfterFirst(line, "="), Whitespace), Quotes))
             ELSE LoadFromLines(Tail(lines))

\* lines 40-63
load_musescore_path(file) ==
    IF ~file.exists THEN None ELSE LoadFromLines(Lines(file.text))

\* lines 76-95: save_musescore_path(p); ok = the file could be written
SaveMusescorePath(p, ok) ==
    /\ pc = "settings"
    /\ path' = p
    /\ saved' = ok
    /\ settings_file' = IF ok THEN [exists |-> TRUE, text |-> SettingsLine(p)]
                        ELSE settings_file
    /\ pc' = "saved"
    /\ UNCHANGED <<ticks_per_beat, track_index, track_events, tracks_data,
                   parser_vars, conv_vars, quant_vars, loaded_path, gui_vars>>

\* lines 40-63: load_musescore_path()
LoadMusescorePath ==
    /\ pc \in {"settings", "saved"}
    /\ loaded_path' = load_musescore_path(settings_file)
    /\ pc' = "loaded"
    /\ UNCHANGED <<ticks_per_beat, track_index, track_events, tracks_data,
                   parser_vars, conv_vars, quant_vars, settings_file, path, saved,
                   gui_vars>>

SettingsInit ==
    /\ pc = "settings"
    /\ midi_tpb = 0
    /\ ticks_per_beat = 0
    /\ time_signature = DEFAULT_TIME_SIGNATURE
    /\ initial_time_sig_found = FALSE
    /\ tracks_data = <<>>
    /\ Idle
    /\ QuantIdle

SettingsNext ==
    \/ \E p \in Paths, ok \in BOOLEAN : SaveMusescorePath(p, ok)
    \/ LoadMusescorePath

SettingsSpec == SettingsInit /\ [][SettingsNext]_vars

-----------------------------------------------------------------------------
(* GuiSpec: file_handler.MidiConverterApp.  The handlers of the widgets    *)
(* run one at a time in the Tk main loop, a dialog they open being modal;  *)
(* each run_conversion is a thread of its own whose steps interleave with  *)
(* them.  Of the callbacks given to master.after only _update_buttons is   *)
(* kept: _update_log and _update_output write to the text widgets alone.   *)
(* The button "Text -> MIDI" is created disabled (line 75) and its state   *)
(* is set to disabled only; a request for that direction is modelled as a  *)
(* call of the handler, which does not look at the button.                 *)

MaxThreads == 2

\* values of input_path_var: nothing, a path without a file, a MIDI file
\* and a MuseScore file
InputPaths == {"", "gone.mid", "song.mid", "song.mscz"}

\* os.path.exists(input_path)
PathExists(input_path) == input_path \in {"song.mid", "song.mscz"}

Directions == {"->", "<-"}

\* the ways the try block of run_conversion ends: at its end, or with an
\* exception of one of the except clauses (lines 375-399); each gives the
\* local result_message a text of its own
Outcomes ==
    {"ok", "FileNotFoundError", "NotImplementedError", "ValueError", "RuntimeError",
     "Exception"}

\* lines 177-193: browse_file; filepath = "" when the dialog is cancelled
browse_file(filepath) ==
    /\ pc = "gui"
    /\ browse_button = NORMAL
    /\ IF filepath # ""
       THEN /\ input_path_var' = filepath
            /\ convert_midi_to_text_button' = NORMAL
       ELSE UNCHANGED <<input_path_var, convert_midi_to_text_button>>
    /\ UNCHANGED <<pc, ticks_per_beat, track_index, track_events, tracks_data,
                   parser_vars, conv_vars, quant_vars, settings_vars, browse_button,
                   input_path_entry, threads, after_queue, messagebox, status>>

\* line 57: the user edits the entry bound to input_path_var
EditInputPath(text) ==
    /\ pc = "gui"
    /\ input_path_entry = NORMAL
    /\ input_path_var' = text
    /\ UNCHANGED <<pc, ticks_per_beat, track_index, track_events, tracks_data,
                   parser_vars, conv_vars, quant_vars, settings_vars,
                   convert_midi_to_text_button, browse_button, input_path_entry,
                   threads, after_queue, messagebox, status>>

\* lines 243 and 249: the request is turned down
IsRejected(direction, input_path) ==
    \/ direction = "->" /\ (input_path = "" \/ ~PathExists(input_path))
    \/ direction = "<-"

\* the convert button is left as it is when a run starts
ConvertButtonLeftNormal == NORMAL

\* line 253: the state of the convert button while a run is on its way
ConvertButtonWhileRunning == DISABLED

\* lines 238-266: start_conversion_thread(direction); for "->" it is the
\* command of the convert button, which a disabled button does not call
start_conversion_thread(direction) ==
    /\ pc = "gui"
    /\ direction = "->" => convert_midi_to_text_button = NORMAL
    /\ IF direction = "->" /\ (input_path_var = "" \/ ~PathExists(input_path_var))
       THEN /\ messagebox' = "showerror"
            /\ UNCHANGED <<convert_midi_to_text_button, browse_button,
                           input_path_entry, threads>>
       ELSE IF direction = "<-"
       THEN /\ messagebox' = "showwarning"
            /\ UNCHANGED <<convert_midi_to_text_button, browse_button,
                           input_path_entry, threads>>
       ELSE /\ Len(threads) < MaxThreads
            /\ messagebox' = "none"
            /\ convert_midi_to_text_button' = ConvertButtonWhileRunning
            /\ browse_button' = DISABLED
            /\ input_path_entry' = DISABLED
            /\ threads' = Append(threads, [pc |-> "try", input_path |-> input_path_var,
                                           direction |-> direction,
                                           error_occurred |-> FALSE,
                                           result_message |-> "unknown"])
    /\ UNCHANGED <<pc, ticks_per_beat, track_index, track_events, tracks_data,
                   parser_vars, conv_vars, quant_vars, settings_vars, input_path_var,
                   after_queue, status>>

\* lines 279-399: the try block of thread k and the except clause it ends in
run_conversion(k, outcome) ==
    /\ pc = "gui"
    /\ k \in DOMAIN threads
    /\ threads[k].pc = "try"
    /\ threads' = [threads EXCEPT ![k].pc = "finally",
                                  ![k].error_occurred = (outcome # "ok"),
                                  ![k].result_message = outcome]
    /\ UNCHANGED <<pc, ticks_per_beat, track_index, track_events, tracks_data,
                   parser_vars, conv_vars, quant_vars, settings_vars, input_path_var,
                   convert_midi_to_text_button, browse_button, input_path_entry,
                   after_queue, messagebox, status>>

\* the controls are given back only after a run without error
ReactivatesOnSuccess(error_occurred) == ~error_occurred

\* line 417: the finally block calls reactivate_buttons, whatever happened
Reactivates(error_occurred) == TRUE

\* lines 222-235: reactivate_buttons gives _update_buttons to master.after;
\* the window and its widgets exist as long as the main loop runs
reactivate_buttons(queue) == Append(queue, "_update_buttons")

\* lines 401-417: the finally block of thread k; the thread ends with it
finish_conversion(k) ==
    /\ pc = "gui"
    /\ k \in DOMAIN threads
    /\ threads[k].pc = "finally"
    /\ status' = IF threads[k].error_occurred THEN "FEHLERN" ELSE "erfolgreich"
    /\ after_queue' = IF Reactivates(threads[k].error_occurred)
                      THEN reactivate_buttons(after_queue) ELSE after_queue
    /\ threads' = SubSeq(threads, 1, k - 1) \o SubSeq(threads, k + 1, Len(threads))
    /\ UNCHANGED <<pc, ticks_per_beat, track_index, track_events, tracks_data,
                   parser_vars, conv_vars, quant_vars, settings_vars, input_path_var,
                   convert_midi_to_text_button, browse_button, input_path_entry,
                   messagebox>>

\* lines 225-233: the main loop runs the callback _update_buttons
update_buttons ==
    /\ pc = "gui"
    /\ after_queue # <<>>
    /\ after_queue' = Tail(after_queue)
    /\ convert_midi_to_text_button' = NORMAL
    /\ browse_button' = NORMAL
    /\ input_path_entry' = NORMAL
    /\ UNCHANGED <<pc, ticks_per_beat, track_index, track_events, tracks_data,
                   parser_vars, conv_vars, quant_vars, settings_vars, input_path_var,
                   threads, messagebox, status>>

GuiInit ==
    /\ pc = "gui"
    /\ midi_tpb = 0
    /\ ticks_per_beat = 0
    /\ time_signature = DEFAULT_TIME_SIGNATURE
    /\ initial_time_sig_found = FALSE
    /\ tracks_data = <<>>
    /\ Idle
    /\ QuantIdle

\* the steps of the conversion threads
WorkerNext ==
    \E k \in 1..MaxThreads :
        \/ \E outcome \in Outcomes : run_conversion(k, outcome)
        \/ finish_conversion(k)

GuiNext ==
    \/ \E filepath \in {p \in InputPaths : p = "" \/ PathExists(p)} : browse_file(filepath)
    \/ \E text \in InputPaths : EditInputPath(text)
    \/ \E direction \in Directions : start_conversion_thread(direction)
    \/ WorkerNext
    \/ update_buttons

GuiSpec == GuiInit /\ [][GuiNext]_vars

\* a thread that can take a step takes one, and the main loop runs the
\* callbacks it was given
GuiFairSpec == GuiSpec /\ WF_vars(WorkerNext) /\ WF_vars(update_buttons)

-----------------------------------------------------------------------------
(* Properties *)

Range(s) == {s[k] : k \in 1..Len(s)}

\* entry k of the table is at the smallest distance from t / tpb beats, and no
\* entry listed before it is equally near
IsNearestEarliest(k, t, tpb) ==
    \A l \in 1..Len(duration_map) :
        /\ Difference(t, tpb, duration_map[l].beat16)
              >= Difference(t, tpb, duration_map[k].beat16)
        /\ l < k => Difference(t, tpb, duration_map[l].beat16)
                       > Difference(t, tpb, duration_map[k].beat16)

\* every entry of the table is more than MAX_QUANTIZATION_ERROR_BEATS away
BeyondTolerance(t, tpb) ==
    \A l \in 1..Len(duration_map) :
        Difference(t, tpb, duration_map[l].beat16) * MAX_QUANTIZATION_ERROR_BEATS.den
            > MAX_QUANTIZATION_ERROR_BEATS.num * 16 * tpb

PlainCodes == {"/1", "/2", "/4", "/8", "/16", "/32", "/64"}
GrammarCodes == PlainCodes \cup {c \o "." : c \in PlainCodes} \cup {"/?"}

\* C3 as stated: every duration code the quantizer produces is /n with n in
\* {1,2,4,8,16,32,64}, optionally dotted, or /?.
C3_GrammarOnly == pc = "quantized" => best_match_code \in GrammarCodes

\* C3, amended: every duration code the quantizer produces is /n with n in
\* {1,2,4,8,16,32,64}, optionally dotted, or /0.5 (double whole), or /?.
C3_GrammarWithDoubleWhole ==
    pc = "quantized" => best_match_code \in GrammarCodes \cup {"/0.5"}

\* 2880 ticks at 480 are 6 beats, as far from 8.0 as from 4.0: /0.5
C3_Witness ==
    pc = "quantized" /\ ticks = 2880 /\ ticks_per_beat = 480 /\ best_match_code = "/0.5"

C11_InvalidInputsUnknown ==
    (pc = "quantized" /\ (ticks <= 0 \/ ticks_per_beat <= 0)) =>
        best_match_code = "/?" /\ ~low_confidence

\* zero ticks at zero ticks per beat
C11_Witness ==
    pc = "quantized" /\ ticks = 0 /\ ticks_per_beat = 0 /\ best_match_code = "/?"

\* ticks is k beats for a power of two k
IsPowerOfTwoBeats(k) ==
    /\ k \in {1, 2, 4, 8, 16, 32, 64, 128, 256, 512, 1024, 2048, 4096}
    /\ ticks_per_beat > 0 /\ ticks = k * ticks_per_beat

\* the table entries whose beat value is exactly k beats
ExactEntries(k) == {e \in Range(duration_map) : e.beat16 = 16 * k}

\* C12 as stated: for ticks = k * ticks_per_beat, k a power of two, the
\* quantizer returns the code of the table entry of exactly k beats.
C12_PowerOfTwoExact ==
    pc = "quantized" =>
        \A k \in 1..(MaxTicks + 1) :
            IsPowerOfTwoBeats(k) =>
                \E e \in ExactEntries(k) : best_match_code = e.code

\* C12, amended: ticks = k * ticks_per_beat gives /4 for k = 1, /2 for k = 2,
\* /1 for k = 4 and /0.5 for k = 8, without a warning; for a larger power of
\* two k the table has no entry and the nearest code /0.5 is returned with
\* the low-confidence warning.
C12_PowerOfTwoNearest ==
    pc = "quantized" =>
        \A k \in 1..(MaxTicks + 1) :
            IsPowerOfTwoBeats(k) =>
                /\ k = 1 => best_match_code = "/4"
                /\ k = 2 => best_match_code = "/2"
                /\ k = 4 => best_match_code = "/1"
                /\ k >= 8 => best_match_code = "/0.5"
                /\ low_confidence <=> k > 8

\* 1920 ticks at 480 ticks per beat are 4 beats: /1
C12_Witness ==
    pc = "quantized" /\ ticks = 1920 /\ ticks_per_beat = 480 /\ best_match_code = "/1"

\* the nominal tick length of a code: its table beat value * ticks_per_beat
NominalTicks(code, tpb) ==
    LET e == CHOOSE e \in Range(duration_map) : e.code = code
    IN  (e.beat16 * tpb) \div 16

\* C13: at a tick rate that makes every table value a whole number of ticks,
\* quantizing the nominal tick length of the code returned for ticks > 0
\* returns that code again.
C13_Idempotent ==
    (pc = "quantized" /\ ticks > 0 /\ ticks_per_beat > 0 /\ ticks_per_beat % 16 = 0) =>
        /\ \E e \in Range(duration_map) : e.code = best_match_code
        /\ _ticks_to_duration_code(NominalTicks(best_match_code, ticks_per_beat),
                                   ticks_per_beat) = best_match_code

\* 1000 ticks at 480 gave /2, whose nominal length is 960 ticks
C13_Witness ==
    /\ pc = "quantized" /\ ticks = 1000 /\ ticks_per_beat = 480
    /\ best_match_code = "/2" /\ NominalTicks(best_match_code, ticks_per_beat) = 960

\* ---- calculate_ticks_per_measure on its own (MSpec)

\* one of the two functions has returned for positive numerator, denominator
\* and ticks_per_beat
MeasuredPositive ==
    /\ pc \in {"measured", "legacy_measured"}
    /\ time_signature[1] > 0 /\ time_signature[2] > 0 /\ ticks_per_beat > 0

\* the values the test of gui_converter.py expects at 480 ticks per beat
MeasureExamples ==
    (pc \in {"measured", "legacy_measured"} /\ ticks_per_beat = 480) =>
        /\ time_signature = <<4, 4>> => ticks_per_measure = 1920
        /\ time_signature = <<3, 4>> => ticks_per_measure = 1440
        /\ time_signature = <<6, 8>> => ticks_per_measure = 1440
        /\ time_signature = <<2, 2>> => ticks_per_measure = 1920
        /\ time_signature = <<4, 0>> => ticks_per_measure = 1920

\* a denominator of 0 gives ticks_per_beat * 4
MeasureOfDenominatorZero ==
    (pc \in {"measured", "legacy_measured"} /\ time_signature[2] = 0) =>
        ticks_per_measure = ticks_per_beat * 4

\* C16 as stated: for positive n, d and tpb the result is tpb * n * 4 / d.
C16_ExactQuotient ==
    /\ MeasuredPositive =>
          ticks_per_measure * time_signature[2] = ticks_per_beat * time_signature[1] * 4
    /\ MeasureExamples
    /\ MeasureOfDenominatorZero

\* C16, amended: for positive n and tpb and a denominator d that is a power
\* of two the result is tpb * n * 4 / d truncated to an integer; when the
\* truncation is 0, utils.calculate_ticks_per_measure returns tpb * 4 and the
\* function of gui_converter.py returns 0.  At 480: 4/4 gives 1920, 3/4 and
\* 6/8 give 1440, 2/2 gives 1920.  A denominator of 0 gives tpb * 4.
C16_TruncatedQuotient ==
    /\ MeasuredPositive =>
          LET q == (ticks_per_beat * time_signature[1] * 4) \div time_signature[2]
          IN  ticks_per_measure =
                  IF q > 0 THEN q
                  ELSE IF pc = "measured" THEN ticks_per_beat * 4 ELSE 0
    /\ MeasureExamples
    /\ MeasureOfDenominatorZero

\* 6/8 at 480 ticks per beat: 1440 ticks
C16_Witness ==
    /\ pc = "measured" /\ time_signature = <<6, 8>> /\ ticks_per_beat = 480
    /\ ticks_per_measure = 1440

\* C36: utils.calculate_ticks_per_measure returns a value <= 0 if and only
\* if the denominator is 0 and ticks_per_beat <= 0; for every other time
\* signature and ticks_per_beat (numerator 0 or negative, negative
\* denominator, ticks_per_beat <= 0 with a denominator other than 0) the
\* value is positive.
C36_NonPositiveOnlyForZeroDenominator ==
    pc = "measured" =>
        (ticks_per_measure <= 0 <=> (time_signature[2] = 0 /\ ticks_per_beat <= 0))

\* 0/4 at ticks_per_beat 0: ticks_per_beat becomes 1, the product is 0 and
\* the fallback 1 * 4 is returned
C36_Witness ==
    /\ pc = "measured" /\ time_signature = <<0, 4>> /\ ticks_per_beat = 0
    /\ ticks_per_measure = 4

\* ---- the converter on its own (ConvSpec)

\* the track blocks of the document so far
TrackBlocks == {b \in Range(output_lines) : b.kind = "track"}

\* C4 (velocity 80, 480 ticks), E4 (80, 480 ticks) and G4 (70, 960 ticks) in a row
C2_Scenario ==
    << NoteEvent(0, 60, 80, 480), NoteEvent(480, 64, 80, 480), NoteEvent(960, 67, 70, 960) >>

\* C2: at 480 ticks per beat in 4/4 the track C4, E4, G4 of C2_Scenario gives
\* exactly the body "| 1 C4/4 E4/4 G4/2 |".
C2_EndToEndBody ==
    (pc = "done" /\ ticks_per_beat = 480 /\ time_signature = <<4, 4>>
        /\ tracks_data = <<C2_Scenario>>) =>
        /\ Cardinality(TrackBlocks) = 1
        /\ \A b \in TrackBlocks : Flatten(b.body) = "| 1 C4/4 E4/4 G4/2 |"

MeasureNumbers == {ToString(m) : m \in 1..64}

\* the text ends with "|" or with "| <measure number>"
EndsWithBarToken(body) ==
    /\ body # <<>>
    /\ \/ body[Len(body)] = "|"
       \/ /\ Len(body) >= 3
          /\ body[Len(body)] \in MeasureNumbers
          /\ body[Len(body) - 1] = " "
          /\ body[Len(body) - 2] = "|"

\* C4: the body of every track block ends with a bar-line token, whatever
\* the kind and tick of the last object of the track.
C4_BodyEndsWithBarLine == \A b \in TrackBlocks : EndsWithBarToken(b.body)

\* the events give pass 1 nothing to emit: no note, no time signature, and
\* no gap long enough for a rest
HasNoObjects(events) ==
    \A e \in Range(events) : e.type = "tempo" /\ ~(e.tick >= MIN_REST_DURATION_TICKS)

\* C8: every track with zero musical objects, its event list empty or not,
\* has a block in the document whose body is "| 1 |".
C8_EmptyTrackHasBlock ==
    pc = "done" =>
        \A t \in 1..Len(tracks_data) :
            HasNoObjects(tracks_data[t]) =>
                \E b \in TrackBlocks : b.track = t - 1 /\ b.body = EmptyTrackBody

\* the rests pass 1 placed at tick t
RestsAt(t) ==
    {k \in 1..Len(musical_objects) :
        musical_objects[k].type = "rest" /\ musical_objects[k].tick = t}

\* C9: of two notes in sequence, the second starting g ticks after the end of
\* the first: g = MIN_REST_DURATION_TICKS - 1 gives no Rest object, and
\* g = MIN_REST_DURATION_TICKS gives exactly one, at the end tick of the first
\* note, with the quantized code of g (a 64th at the tick rates of the model).
C9_RestThreshold ==
    (pc = "pass2" /\ Len(track_events) = 2
        /\ track_events[1].type = "note" /\ track_events[2].type = "note") =>
        LET end1 == track_events[1].tick + track_events[1].duration
            g == track_events[2].tick - end1
        IN  /\ g = MIN_REST_DURATION_TICKS - 1 => RestsAt(end1) = {}
            /\ g = MIN_REST_DURATION_TICKS =>
                  /\ Cardinality(RestsAt(end1)) = 1
                  /\ \A k \in RestsAt(end1) :
                        /\ musical_objects[k].duration_ticks = g
                        /\ musical_objects[k].code = "R/64"
                        /\ musical_objects[k].code
                              = "R" \o _ticks_to_duration_code(g, ticks_per_beat)

\* a first note ending at tick 480, the second starting at 485: one rest at 480
C9_Witness ==
    /\ pc = "pass2" /\ Len(track_events) = 2
    /\ track_events[1].type = "note" /\ track_events[2].type = "note"
    /\ track_events[1].tick + track_events[1].duration = 480
    /\ track_events[2].tick = 485
    /\ Cardinality(RestsAt(480)) = 1

DurationCodes == GrammarCodes \cup {"/0.5"}

\* the track is two notes of the pitches 60 and 67 starting at the same tick
IsC4G4Pair(events) ==
    /\ Len(events) = 2
    /\ events[1].type = "note" /\ events[2].type = "note"
    /\ events[1].tick = events[2].tick
    /\ {events[1].pitch, events[2].pitch} = {60, 67}

\* C14: two notes of the MIDI numbers 67 and 60 starting at the same tick are
\* rendered as the single token C4+G4<code>, never G4+C4 and never as two
\* tokens, in whichever order the notes were emitted.
C14_ChordAscending ==
    (pc = "done" /\ Len(tracks_data) = 1 /\ IsC4G4Pair(tracks_data[1])) =>
        \A b \in TrackBlocks :
            /\ \E c \in DurationCodes : ("C4+G4" \o c) \in Range(b.body)
            /\ \A c \in DurationCodes :
                  /\ ("G4+C4" \o c) \notin Range(b.body)
                  /\ ("C4" \o c) \notin Range(b.body)
                  /\ ("G4" \o c) \notin Range(b.body)

ErrorBlocks == {b \in Range(output_lines) : b.kind = "error"}

\* the indices (0-based) of the tracks that have events, in ascending order
RECURSIVE NonEmptyTracks(_)
NonEmptyTracks(t) ==
    IF t > Len(tracks_data) THEN <<>>
    ELSE (IF tracks_data[t] = <<>> THEN <<>> ELSE <<t - 1>>) \o NonEmptyTracks(t + 1)

RECURSIVE LonePass1(_, _, _, _, _, _)
LonePass1(events, k, objects, end_tick, dynamic, tpb) ==
    IF k > Len(events) THEN [objects |-> objects, end_tick |-> end_tick]
    ELSE LET event == events[k]
             rested == WithRest(objects, event.tick, end_tick, tpb)
         IN  IF event.type = "note"
             THEN LonePass1(events, k + 1,
                            Append(WithDynamic(rested, event, dynamic), NoteObject(event)),
                            event.tick + event.duration,
                            velocity_to_dynamic(event.velocity), tpb)
             ELSE IF event.type = "timesig"
             THEN LonePass1(events, k + 1, Append(rested, TimeSigObject(event)),
                            end_tick, dynamic, tpb)
             ELSE LonePass1(events, k + 1, rested, end_tick, dynamic, tpb)

\* pass 2 run on the objects of one track alone, from object k on
RECURSIVE LonePass2(_, _, _, _, _, _)
LonePass2(objects, k, parts, measure, tpb, tpm) ==
    IF k > Len(objects) THEN [parts |-> parts, measure |-> measure]
    ELSE LET obj == objects[k]
             measure_at_tick == (obj.tick \div tpm) + 1
             barred == IF measure_at_tick > measure
                       THEN AddBars(parts, measure + 1, measure_at_tick) ELSE parts
             now == IF measure_at_tick > measure THEN measure_at_tick ELSE measure
             j == ChordEnd(objects, k + 1, obj.tick)
         IN  IF obj.type = "note"
             THEN LonePass2(objects, j,
                            Append(barred, <<NoteToken(SubSeq(objects, k, j - 1), tpb)>>),
                            now, tpb, tpm)
             ELSE IF obj.type = "rest" /\ IsWholeMeasureRest(obj, tpm)
             THEN LonePass2(objects, k + 1, barred, now, tpb, tpm)
             ELSE LonePass2(objects, k + 1, Append(barred, <<obj.code>>), now, tpb, tpm)

\* the body midi_to_llm_text gives a track when it is the only one
LoneBody(events, tpb, tpm) ==
    LET laid == LonePass1(events, 1, <<>>, 0, "None", tpb)
        sorted == SortByKey(laid.objects, "tick")
    IN  IF sorted = <<>> THEN EmptyTrackBody
        ELSE LET formatted == LonePass2(sorted, 1, <<OpeningBar>>, 1, tpb, tpm)
             IN  CleanBody(WithTrailingBar(formatted.parts, laid.end_tick,
                                           formatted.measure, tpm))

\* the blocks of the tracks stand in ascending track index
BlocksAscending ==
    \A k, l \in 1..Len(output_lines) :
        k < l => output_lines[k].track < output_lines[l].track

\* C18: the blocks of the tracks stand in ascending track index; the layout
\* of every track starts from last_event_end_tick = 0, no current dynamic
\* and no object, its formatting from measure 1 and the opening bar; and the
\* body of every track is the one the track gets when converted alone,
\* whatever the other tracks contain.
C18_TracksIndependent ==
    /\ [](BlocksAscending)
    /\ [][pc' = "pass1" /\ pc # "pass1" =>
             /\ last_event_end_tick' = 0 /\ current_dynamic' = "None"
             /\ musical_objects' = <<>> /\ ev_i' = 1
             /\ track_events' = tracks_data[track_index + 1]]_vars
    /\ [][pc' = "pass2" /\ pc # "pass2" =>
             /\ current_measure' = 1 /\ track_string_parts' = <<OpeningBar>>
             /\ i' = 1]_vars
    /\ [](pc = "done" =>
             \A b \in TrackBlocks :
                 b.body = LoneBody(tracks_data[b.track + 1], ticks_per_beat,
                              calculate_ticks_per_measure(time_signature, ticks_per_beat)))

\* two tracks of one note each: C4 at tick 0 in track 0, E4 at tick 480 in
\* track 1, whose body starts again with the rest and the dynamic marker
C18_Witness ==
    /\ pc = "done" /\ ticks_per_beat = 480 /\ Len(tracks_data) = 2
    /\ tracks_data[1] = <<NoteEvent(0, 60, 80, 480)>>
    /\ tracks_data[2] = <<NoteEvent(480, 64, 80, 480)>>
    /\ Len(output_lines) = 3
    /\ Flatten(output_lines[2].body) = "| 1 dyn(mf) C4/4 |"
    /\ Flatten(output_lines[3].body) = "| 1 R/4 dyn(mf) E4/4 |"

\* the blocks of the document, in order: one per track that has events
BlockTracks == [k \in 1..(Len(output_lines) - 1) |-> output_lines[k + 1].track]

\* the document is complete: the key line, one block for every track that
\* has events, and the returned text is the lines joined
CompleteDocument ==
    /\ output_lines # <<>> /\ output_lines[1] = KeyLine
    /\ BlockTracks = NonEmptyTracks(1)
    /\ result = JoinStr(LineTexts(output_lines), "\n\n")

\* an upper bound of the steps midi_to_llm_text spends on the tracks from
\* track t (1-based) on: per track the head of the loop, one step per event,
\* the sort, one iteration per object (at most three objects per event) and
\* the block of the track
RECURSIVE StepsOfTracks(_)
StepsOfTracks(t) ==
    IF t > Len(tracks_data) THEN 0
    ELSE 4 * Len(tracks_data[t]) + 4 + StepsOfTracks(t + 1)

\* an upper bound of the steps left until midi_to_llm_text has returned
StepsLeft ==
    CASE pc = "parsed" -> StepsOfTracks(1) + 2
      [] pc = "convert" -> StepsOfTracks(track_index + 1) + 1
      [] pc = "pass1" -> StepsOfTracks(track_index + 2) + 1
                           + 3 * Len(track_events) + 2 + (Len(track_events) + 1 - ev_i)
      [] pc = "pass2" -> StepsOfTracks(track_index + 2) + 1
                           + (Len(musical_objects) + 2 - i)
      [] OTHER -> 0

\* the call has a next step: one of the guards of its steps holds (the
\* branches of lines 131, 155, 202 and 211 are exhaustive)
CanStep ==
    \/ pc = "parsed"
    \/ pc = "convert" /\ track_index <= Len(tracks_data)
    \/ pc = "pass1" /\ ev_i <= Len(track_events) + 1
    \/ pc = "pass2" /\ i <= Len(musical_objects) + 1

LegacyExactValues ==
    {<<(e.beat16 * 480) \div 16, e.code>> : e \in Range(legacy_duration_map)}

\* C20: the legacy quantizer returns a standard code only for a duration
\* close enough to the standard value: at 480 ticks per beat every exact
\* plain and dotted value gives its code, 475 ticks give /4 and 710 ticks
\* give /4., and 0 ticks, 50 ticks and 1000 ticks give /?, as
\* test_ticks_to_duration_code expects.
C20_LegacyTestExpectations ==
    (pc = "legacy_quantized" /\ ticks_per_beat = 480) =>
        /\ \A v \in LegacyExactValues : ticks = v[1] => best_match_code = v[2]
        /\ (ticks = 475 => best_match_code = "/4")
        /\ (ticks = 710 => best_match_code = "/4.")
        /\ (ticks \in {0, 50, 1000} => best_match_code = "/?")

\* the note objects of the track that start at tick t, in their order
AllNotesAt(t) == SelectSeq(musical_objects, LAMBDA o : o.type = "note" /\ o.tick = t)

\* the step of the formatting loop formats a note or chord
FormatsNote == pc = "pass2" /\ i' > i /\ musical_objects[i].type = "note"

\* C21: all the NoteEvents of a track that start at the same tick are
\* rendered as one chord token: the iteration of the formatting loop that
\* meets the first of them consumes every note of that tick and appends the
\* one token of all their pitches, whatever their velocities and order.
C21_SameTickOneChord ==
    [][FormatsNote =>
          /\ SubSeq(musical_objects, i, i' - 1) = AllNotesAt(musical_objects[i].tick)
          /\ track_string_parts'[Len(track_string_parts')]
                = <<NoteToken(AllNotesAt(musical_objects[i].tick), ticks_per_beat)>>]_vars

\* the number of bar-line tokens among the parts
BarCount(parts) ==
    Cardinality({k \in 1..Len(parts) : StartsWith(parts[k], PlainBar)})

\* the measure index of the object the formatting loop stands at
MeasureIndex == (musical_objects[i].tick \div ticks_per_measure) + 1

\* C22: when the measure index of an object exceeds the running measure
\* counter, one bar-line token is inserted per skipped measure boundary,
\* also over several empty measures in a row; so the bar-line tokens that
\* precede the token of an object are as many as its measure index.
C22_BarPerMeasure ==
    [][(pc = "pass2" /\ i' > i) =>
          /\ BarCount(track_string_parts')
                = BarCount(track_string_parts) + (MeasureIndex - current_measure)
          /\ ~StartsWith(track_string_parts'[Len(track_string_parts')], PlainBar)
                => BarCount(track_string_parts') = MeasureIndex]_vars

\* the events of a track without its tempo events
WithoutTempo(events) == SelectSeq(events, LAMBDA e : e.type # "tempo")

\* C23: tempo events are not used by layout: the musical objects of a track
\* and its text body are those of the same track with its tempo events
\* removed, at whatever ticks the tempo events stand.
C23_TempoIgnored ==
    /\ pc = "pass2" =>
          musical_objects
              = SortByKey(LonePass1(WithoutTempo(track_events), 1, <<>>, 0, "None",
                                    ticks_per_beat).objects, "tick")
    /\ pc = "done" =>
          \A b \in TrackBlocks :
              b.body = LoneBody(WithoutTempo(tracks_data[b.track + 1]), ticks_per_beat,
                                calculate_ticks_per_measure(time_signature, ticks_per_beat))

\* the velocity buckets: the symbol of the first upper bound not below v
BucketSymbol(v) ==
    IF v <= 16 THEN "ppp" ELSE IF v <= 32 THEN "pp" ELSE IF v <= 63 THEN "p"
    ELSE IF v <= 79 THEN "mp" ELSE IF v <= 95 THEN "mf" ELSE IF v <= 111 THEN "f"
    ELSE IF v <= 126 THEN "ff" ELSE "fff"

\* the indices of the dynamic markers among the objects
DynamicIndices(objects) == {k \in 1..Len(objects) : objects[k].type = "dynamic"}

\* pass 1 handles a note event in this step
HandlesNote == pc = "pass1" /\ ev_i' = ev_i + 1 /\ track_events[ev_i].type = "note"

InitialTicksPerMeasure == calculate_ticks_per_measure(time_signature, ticks_per_beat)

\* C25: a time-signature event inside a track is rendered as the inline
\* marker [n/d] and leaves ticks_per_measure unchanged: while a track is
\* laid out and formatted, ticks_per_measure is the value derived from the
\* initial time signature, and the measure counter after every object is the
\* measure index computed with that value.
C25_TimeSigMarkerOnly ==
    /\ [](pc \in {"pass1", "pass2"} => ticks_per_measure = InitialTicksPerMeasure)
    /\ [][(pc = "pass1" /\ ev_i' = ev_i + 1 /\ track_events[ev_i].type = "timesig") =>
             /\ musical_objects'[Len(musical_objects')]
                   = [tick |-> track_events[ev_i].tick, type |-> "timesig",
                      code |-> "[" \o ToString(track_events[ev_i].numerator) \o "/"
                                  \o ToString(track_events[ev_i].denominator) \o "]"]
             /\ ticks_per_measure' = ticks_per_measure]_vars
    /\ [][(pc = "pass2" /\ i' > i) =>
             /\ current_measure'
                   = (musical_objects[i].tick \div InitialTicksPerMeasure) + 1
             /\ musical_objects[i].type = "timesig" =>
                   track_string_parts'[Len(track_string_parts')] = <<"[3/4]">>]_vars

\* at 120 ticks per beat in 4/4 a track with a 3/4 marker at tick 4 and a
\* note at tick 960: the measure is still 480 ticks (not the 360 of 3/4),
\* and the note is in measure 3
C25_Witness ==
    /\ pc = "pass2" /\ ticks_per_beat = 120 /\ time_signature = <<4, 4>>
    /\ Len(track_events) = 2
    /\ track_events[1].type = "timesig" /\ track_events[1].tick = 4
    /\ track_events[2].type = "note" /\ track_events[2].tick = 960
    /\ ticks_per_measure = 480
    /\ calculate_ticks_per_measure(<<3, 4>>, ticks_per_beat) = 360
    /\ i > Len(musical_objects) /\ current_measure = 3
    /\ <<"[3/4]">> \in Range(track_string_parts)

\* the tokens of a body: its symbols without the spaces between them
Words(body) == SelectSeq(body, LAMBDA x : x # " ")

\* two bar-line tokens (a bar line, with or without its measure number)
\* follow each other in the body
HasAdjacentBars(body) ==
    LET w == Words(body)
    IN  \E k \in 1..(Len(w) - 1) :
            /\ w[k] = "|"
            /\ \/ w[k + 1] = "|"
               \/ k + 2 <= Len(w) /\ w[k + 1] \in MeasureNumbers /\ w[k + 2] = "|"

\* no whitespace at either end of the body and no two spaces in a row
IsTrimmed(body) ==
    /\ body # <<>> /\ body[1] # " " /\ body[Len(body)] # " "
    /\ \A k \in 1..(Len(body) - 1) : ~(body[k] = " " /\ body[k + 1] = " ")

\* pass 1 gives the track of block b no musical object
BlockHasNoObjects(b) ==
    LonePass1(tracks_data[b.track + 1], 1, <<>>, 0, "None", ticks_per_beat).objects = <<>>

\* C30 as stated: in the final body of every track no two bar-line tokens
\* are adjacent, and the body has no leading or trailing whitespace.
C30_NoAdjacentBars ==
    \A b \in TrackBlocks : ~HasAdjacentBars(b.body) /\ IsTrimmed(b.body)

\* C30, amended: the final body of every track has no leading or trailing
\* whitespace; in the body of a track that has a musical object no two
\* bar-line tokens are adjacent; the body of a track without musical
\* objects is | 1 |, its opening and its closing bar line.
C30_NoAdjacentBarsUnlessEmpty ==
    \A b \in TrackBlocks :
        /\ IsTrimmed(b.body)
        /\ BlockHasNoObjects(b) => b.body = EmptyTrackBody
        /\ ~BlockHasNoObjects(b) => ~HasAdjacentBars(b.body)

\* at 120 ticks per beat G4 (960 ticks) at tick 960 ends in measure 5: the
\* bar lines of the measures 4 and 5 are one token, with the number
C30_Witness ==
    /\ pc = "done" /\ ticks_per_beat = 120
    /\ tracks_data = <<<<NoteEvent(960, 67, 70, 960)>>>>
    /\ \A b \in TrackBlocks : Flatten(b.body) = "| 1 R/0.5 | dyn(mp) G4/0.5 | 5"

\* the notes of the track that pass 1 has processed so far
ProcessedNotes ==
    {track_events[k] : k \in {l \in 1..(ev_i - 1) : track_events[l].type = "note"}}

\* a note of the track sounds somewhere in the range of the rest object
SoundsDuring(rest) ==
    \E k \in 1..Len(track_events) :
        /\ track_events[k].type = "note"
        /\ track_events[k].tick < rest.tick + rest.duration_ticks
        /\ rest.tick < track_events[k].tick + track_events[k].duration

\* C31: a Rest object is emitted only for a tick range in which no note of
\* the track is sounding: last_event_end_tick is never smaller than the end
\* tick of a note already processed, also when notes overlap or the notes
\* of one tick have different durations.
C31_RestOnlyInSilence ==
    pc \in {"pass1", "pass2"} =>
        /\ \A note \in ProcessedNotes :
               last_event_end_tick >= note.tick + note.duration
        /\ \A k \in 1..Len(musical_objects) :
               musical_objects[k].type = "rest" => ~SoundsDuring(musical_objects[k])

\* the codes of the Rest objects among the objects
RestCodes(objects) == {o.code : o \in {p \in Range(objects) : p.type = "rest"}}

\* the number of Rest objects among the objects
RestCount(objects) ==
    Cardinality({k \in 1..Len(objects) : objects[k].type = "rest"})

\* the number of rest tokens in a body
RestTokenCount(body, codes) ==
    Cardinality({k \in 1..Len(body) : body[k] \in codes})

\* the objects pass 1 makes of the track of block b
BlockObjects(b) ==
    LonePass1(tracks_data[b.track + 1], 1, <<>>, 0, "None", ticks_per_beat).objects

\* C32: every Rest object created by the layout pass appears as an R<code>
\* token in the body of its track; no rest is dropped between layout and
\* formatting.
C32_EveryRestRendered ==
    \A b \in TrackBlocks :
        RestTokenCount(b.body, RestCodes(BlockObjects(b))) = RestCount(BlockObjects(b))

RECURSIVE SumOfRests(_)
SumOfRests(objects) ==
    IF objects = <<>> THEN 0
    ELSE (IF objects[1].type = "rest" THEN objects[1].duration_ticks ELSE 0)
         + SumOfRests(Tail(objects))

\* the tick at which the track ends: the largest tick or end of a note
RECURSIVE TrackEnd(_)
TrackEnd(events) ==
    IF events = <<>> THEN 0
    ELSE LET e == IF events[1].type = "note"
                  THEN events[1].tick + events[1].duration ELSE events[1].tick
             rest == TrackEnd(Tail(events))
         IN  IF e >= rest THEN e ELSE rest

\* the ticks at which the sounding of the track can change
Boundaries(events) ==
    {0} \cup {events[k].tick : k \in 1..Len(events)}
        \cup {events[k].tick + events[k].duration :
                 k \in {l \in 1..Len(events) : events[l].type = "note"}}

IsSilentAt(events, t) ==
    \A k \in 1..Len(events) :
        events[k].type = "note" =>
            (t < events[k].tick \/ t >= events[k].tick + events[k].duration)

\* the ticks of 0 .. TrackEnd at which no note of the track sounds, summed
\* over the ranges between two boundaries
RECURSIVE SilentFrom(_, _, _)
SilentFrom(events, points, t) ==
    LET later == {p \in points : p > t}
    IN  IF later = {} THEN 0
        ELSE LET next == CHOOSE p \in later : \A q \in later : p <= q
             IN  (IF IsSilentAt(events, t) THEN next - t ELSE 0)
                 + SilentFrom(events, points, next)

SilentTicks(events) == SilentFrom(events, Boundaries(events), 0)

\* C33: for each silent gap between the end of one note and the start of
\* the next at most one Rest object is emitted (no two Rest objects start
\* at the same tick), also when time-signature or tempo events fall inside
\* the gap, and the rest durations of a track never add up to more than its
\* silent ticks.
C33_OneRestPerGap ==
    pc = "pass2" =>
        /\ \A k, l \in 1..Len(musical_objects) :
               (k # l /\ musical_objects[k].type = "rest"
                      /\ musical_objects[l].type = "rest")
                  => musical_objects[k].tick # musical_objects[l].tick
        /\ SumOfRests(musical_objects) <= SilentTicks(track_events)

\* ---- the settings file (SettingsSpec)

\* a path without leading or trailing whitespace or quote characters
IsPlainPath(p) ==
    p = <<>> \/ (p[1] \notin Whitespace \cup Quotes
                 /\ p[Len(p)] \notin Whitespace \cup Quotes)

\* C35: load_musescore_path() called after a successful
\* save_musescore_path(p) returns p, for every path p without leading or
\* trailing whitespace or quote characters.
C35_SaveLoadRoundTrip ==
    (pc = "loaded" /\ saved /\ IsPlainPath(path)) => loaded_path = Str(path)

\* ---- the application window (GuiSpec, GuiFairSpec)

ControlsDisabled ==
    /\ convert_midi_to_text_button = DISABLED
    /\ browse_button = DISABLED
    /\ input_path_entry = DISABLED

ControlsNormal ==
    /\ convert_midi_to_text_button = NORMAL
    /\ browse_button = NORMAL
    /\ input_path_entry = NORMAL

\* C37: at most one conversion thread runs at any time; the convert, browse
\* and path controls are disabled from the start of a thread on, and while
\* the thread is alive, its final step included, nothing enables them.
C37_OneWorkerAtATime ==
    /\ Len(threads) <= 1
    /\ threads # <<>> => ControlsDisabled

\* a conversion of song.mid is in its finally block, the controls disabled
C37_Witness ==
    /\ Len(threads) = 1 /\ threads[1].pc = "finally" /\ threads[1].input_path = "song.mid"
    /\ ControlsDisabled /\ status = "erfolgreich"

\* a step of start_conversion_thread that turns the request down
RejectedStart ==
    \E direction \in Directions :
        /\ IsRejected(direction, input_path_var)
        /\ start_conversion_thread(direction)

\* C38: every conversion run that start_conversion_thread starts eventually
\* enables the convert, browse and path controls again, whether it succeeds
\* or ends in an exception; a start request turned down for a missing input
\* file or for the direction Text to MIDI leaves the controls as they are.
C38_RunReenablesControls ==
    /\ (threads # <<>>) ~> ControlsNormal
    /\ [][RejectedStart =>
            UNCHANGED <<convert_midi_to_text_button, browse_button, input_path_entry,
                        threads>>]_vars

\* a run has ended with an error, its callback has run and the controls are
\* enabled again; the request for Text to MIDI that followed was turned down
C38_Witness ==
    /\ status = "FEHLERN" /\ threads = <<>> /\ after_queue = <<>>
    /\ ControlsNormal /\ messagebox = "showwarning"

\* ---- the parser (Spec)

AllEvents ==
    Range(track_events) \cup UNION {Range(tracks_data[t]) : t \in 1..Len(tracks_data)}

\* C5: every NoteEvent of the normalizer has a duration > 0, the tick rate
\* used for force-closed notes being > 0 once the file is loaded.
C5_PositiveDuration ==
    /\ pc # "load" => ticks_per_beat > 0
    /\ \A e \in AllEvents : e.type = "note" => e.duration > 0

\* a file declaring 0 ticks per beat whose first track is one NoteOn: the
\* note is force-closed with 480 ticks
C5_Witness ==
    /\ pc = "parse" /\ midi_tpb = 0 /\ track_index = 1 /\ msg_count = 1
    /\ Len(tracks_data) = 1 /\ Len(tracks_data[1]) = 1
    /\ tracks_data[1][1].type = "note" /\ tracks_data[1][1].duration = 480

IsPrefix(s, t) == Len(s) <= Len(t) /\ SubSeq(t, 1, Len(s)) = s

\* msg is a NoteOn with velocity > 0 for a pitch that is open
IsRetrigger(msg) ==
    msg.type = "note_on" /\ msg.velocity > 0 /\ IsActive(active_notes, msg.note)

\* after the step the pitch of msg is open exactly once, started at the new tick
Reopened(msg) ==
    /\ Cardinality({k \in 1..Len(active_notes') : active_notes'[k].note = msg.note}) = 1
    /\ ActiveNote(active_notes', msg.note)
          = [note |-> msg.note, start_tick |-> current_tick', velocity |-> msg.velocity]

\* C6 as stated: a re-trigger closes the prior occurrence as a NoteEvent of
\* duration re-trigger tick - start tick and opens a new occurrence.
C6_RetriggerAlwaysEmits ==
    [][\A msg \in Msgs :
          (IsRetrigger(msg) /\ ParseMsg(msg)) =>
              LET prev == ActiveNote(active_notes, msg.note)
              IN  /\ track_events' =
                        Append(track_events,
                               NoteEvent(prev.start_tick, msg.note, prev.velocity,
                                         current_tick' - prev.start_tick))
                  /\ Reopened(msg)]_vars

\* C6, amended: a re-trigger at a tick later than the start of the open
\* occurrence closes it as a NoteEvent of duration re-trigger tick - start
\* tick; a re-trigger at the start tick itself emits nothing for it; in both
\* cases a new occurrence is opened at the re-trigger tick.  Events once
\* emitted, and the notes open at the end of the track, are all in the
\* normalizer's output for the track.
C6_RetriggerClosesPrior ==
    /\ [][\A msg \in Msgs :
            (IsRetrigger(msg) /\ ParseMsg(msg)) =>
                LET prev == ActiveNote(active_notes, msg.note)
                    gap == current_tick' - prev.start_tick
                IN  /\ gap > 0 => track_events' =
                          Append(track_events,
                                 NoteEvent(prev.start_tick, msg.note, prev.velocity, gap))
                    /\ gap <= 0 => track_events' = track_events
                    /\ Reopened(msg)]_vars
    /\ [][(pc = "parse" /\ tracks_data' = tracks_data) =>
             IsPrefix(track_events, track_events')]_vars
    /\ [][(pc = "parse" /\ tracks_data' # tracks_data) =>
             /\ IsPrefix(tracks_data, tracks_data')
             /\ Len(tracks_data') = Len(tracks_data) + 1
             /\ Range(track_events) \subseteq Range(tracks_data'[Len(tracks_data')])
             /\ \A a \in Range(active_notes) :
                   \E e \in Range(tracks_data'[Len(tracks_data')]) :
                       e.type = "note" /\ e.pitch = a.note /\ e.tick = a.start_tick]_vars

\* two messages read: a NoteOn and its re-trigger 480 ticks later
C6_Witness ==
    /\ pc = "parse" /\ track_index = 0 /\ msg_count = 2
    /\ Len(track_events) = 1 /\ Len(active_notes) = 1
    /\ track_events[1].type = "note" /\ track_events[1].duration = 480
    /\ active_notes[1].note = track_events[1].pitch
    /\ active_notes[1].start_tick = track_events[1].tick + 480

\* the notes open at the end of a track are force-closed at their start tick
\* with duration ticks_per_beat, and the run goes on
ForceClosedAtEnd ==
    [][(pc = "parse" /\ tracks_data' # tracks_data) =>
          /\ pc' \in {"parse", "parsed"}
          /\ \A a \in Range(active_notes) :
                NoteEvent(a.start_tick, a.note, a.velocity, ticks_per_beat)
                    \in Range(tracks_data'[Len(tracks_data')])]_vars

\* the objects consumed by a step of the formatting loop
Consumed == SubSeq(musical_objects, i, i' - 1)

\* the step of the formatting loop consumed a note lasting one beat
ConsumesOneBeatNote ==
    /\ pc = "pass2" /\ i' > i
    /\ \E n \in Range(Consumed) : n.type = "note" /\ n.duration_ticks = ticks_per_beat

LongestConsumed ==
    CHOOSE d \in {n.duration_ticks : n \in Range(Consumed)} :
        \A n \in Range(Consumed) : n.duration_ticks <= d

ConsumedPitches == JoinStr(PitchStrs(SortByKey(Consumed, "pitch_num")), "+")

\* C7 as stated: a note still open at the end of the track is force-closed
\* with duration ticks_per_beat, and it is rendered with the code /4.
C7_ForceClosedIsQuarter ==
    /\ ForceClosedAtEnd
    /\ [][ConsumesOneBeatNote =>
             track_string_parts'[Len(track_string_parts')]
                 = <<ConsumedPitches \o "/4">>]_vars

\* C7, amended: a note still open at the end of the track is force-closed at
\* its start tick with duration ticks_per_beat and the run goes on; the note
\* is rendered with the code /4 unless it is grouped into a chord with a
\* longer note, whose token carries the code of the longest member.
C7_ForceClosedRendered ==
    /\ ForceClosedAtEnd
    /\ [][ConsumesOneBeatNote =>
             track_string_parts'[Len(track_string_parts')]
                 = << ConsumedPitches \o
                        (IF LongestConsumed = ticks_per_beat THEN "/4"
                         ELSE _ticks_to_duration_code(LongestConsumed, ticks_per_beat)) >>]_vars

\* at 240 ticks per beat only a force-closed note lasts 240 ticks (the deltas
\* of the model are multiples of 480): it was rendered alone as C4/4
C7_Witness ==
    /\ pc = "pass2" /\ midi_tpb = 240 /\ i > 1
    /\ musical_objects[i - 1].type = "note"
    /\ musical_objects[i - 1].duration_ticks = 240
    /\ track_string_parts[Len(track_string_parts)] = <<"C4/4">>

\* msg is a NoteOff, or a NoteOn with velocity 0
IsNoteOff(msg) ==
    msg.type = "note_off" \/ (msg.type = "note_on" /\ msg.velocity = 0)

\* msg is an anomaly of the input: a re-trigger of an open pitch, a NoteOff
\* for a pitch that is not open, or a NoteOff at the start tick of its note
IsAnomaly(msg) ==
    \/ IsRetrigger(msg)
    \/ IsNoteOff(msg) /\ ~IsActive(active_notes, msg.note)
    \/ /\ IsNoteOff(msg) /\ IsActive(active_notes, msg.note)
       /\ current_tick + msg.time = ActiveNote(active_notes, msg.note).start_tick

\* C17: every anomaly of the input (re-trigger, NoteOff for a pitch that is
\* not open, zero-duration note, note open at the end of the track) leaves
\* the parser running and is logged: the step that meets it makes a logging
\* call about the note, of whatever level.
C17_AnomalyDiagnosed ==
    /\ [][\A msg \in Msgs :
            (IsAnomaly(msg) /\ ParseMsg(msg)) =>
                /\ pc' = "parse"
                /\ \E r \in Range(logged') : r.note = msg.note]_vars
    /\ [][(pc = "parse" /\ tracks_data' # tracks_data) =>
             /\ pc' \in {"parse", "parsed"}
             /\ \A a \in Range(active_notes) :
                   \E r \in Range(logged') : r.note = a.note]_vars

\* msg closes an open pitch at a tick later than its start
ClosesLater(msg) ==
    /\ IsNoteOff(msg) /\ IsActive(active_notes, msg.note)
    /\ current_tick + msg.time > ActiveNote(active_notes, msg.note).start_tick

\* C26: a NoteOff, or a NoteOn with velocity 0, for an open pitch at a later
\* tick emits exactly one NoteEvent, with the start tick and the velocity of
\* the opening NoteOn, that pitch and duration = current tick - start tick,
\* and removes the pitch, and only it, from the open notes.
C26_NoteOffClosesOpenNote ==
    [][\A msg \in Msgs :
          (ClosesLater(msg) /\ ParseMsg(msg)) =>
              LET open == ActiveNote(active_notes, msg.note)
              IN  /\ track_events' =
                        Append(track_events,
                               NoteEvent(open.start_tick, msg.note, open.velocity,
                                         current_tick' - open.start_tick))
                  /\ ~IsActive(active_notes', msg.note)
                  /\ active_notes'
                        = SelectSeq(active_notes, LAMBDA a : a.note # msg.note)]_vars

\* a NoteOn for C4 at tick 0 and its NoteOff 480 ticks later: one event,
\* nothing open
C26_Witness ==
    /\ pc = "parse" /\ track_index = 0 /\ msg_count = 2 /\ current_tick = 480
    /\ track_events = <<NoteEvent(0, 60, 80, 480)>>
    /\ active_notes = <<>>

\* msg is a NoteOff, or a NoteOn with velocity 0, for a pitch that is not open
IsOrphanNoteOff(msg) == IsNoteOff(msg) /\ ~IsActive(active_notes, msg.note)

\* C27: a NoteOff (or NoteOn with velocity 0) for a pitch that is not open
\* changes nothing but the running tick: the open notes, the events emitted
\* so far, the finished tracks and the metadata are as before, and the
\* parser goes on with the next message.
C27_OrphanNoteOffIgnored ==
    [][\A msg \in Msgs :
          (IsOrphanNoteOff(msg) /\ ParseMsg(msg)) =>
              /\ current_tick' = current_tick + msg.time
              /\ active_notes' = active_notes
              /\ track_events' = track_events
              /\ tracks_data' = tracks_data
              /\ time_signature' = time_signature
              /\ ticks_per_beat' = ticks_per_beat
              /\ pc' = "parse"]_vars

\* the first message of the file is a NoteOff 480 ticks in: the tick has
\* moved, nothing is open and nothing was emitted
C27_Witness ==
    /\ pc = "parse" /\ track_index = 0 /\ msg_count = 1 /\ current_tick = 480
    /\ track_events = <<>> /\ active_notes = <<>> /\ logged = <<>>

\* the events of the current track in the order of their emission, the
\* notes still open at its end last
EmittedEvents ==
    track_events \o [k \in 1..Len(active_notes) |->
                        NoteEvent(active_notes[k].start_tick, active_notes[k].note,
                                  active_notes[k].velocity, ticks_per_beat)]

\* the events of s at tick t, in their order in s
EventsAtTick(s, t) == SelectSeq(s, LAMBDA e : e.tick = t)

\* C28: the normalizer's output for a track is in non-decreasing tick order
\* and holds the emitted events, force-closed notes included, each once;
\* events of equal tick stand in the order of their emission.
C28_StableTickOrder ==
    [][(pc = "parse" /\ tracks_data' # tracks_data) =>
          LET out == tracks_data'[Len(tracks_data')]
          IN  /\ Len(out) = Len(EmittedEvents)
              /\ \A k \in 1..(Len(out) - 1) : out[k].tick <= out[k + 1].tick
              /\ \A e \in Range(EmittedEvents) :
                    EventsAtTick(out, e.tick) = EventsAtTick(EmittedEvents, e.tick)]_vars

\* at 240 ticks per beat: NoteOn C4 at tick 0, NoteOn E4 at tick 0, a time
\* signature at tick 480 and the end of the track.  The two notes are
\* force-closed behind the time signature and sorted before it, C4 first.
C28_Witness ==
    /\ midi_tpb = 240 /\ Len(tracks_data) >= 1
    /\ Len(tracks_data[1]) = 3
    /\ tracks_data[1][1] = NoteEvent(0, 60, 80, 240)
    /\ tracks_data[1][2] = NoteEvent(0, 64, 80, 240)
    /\ tracks_data[1][3].type = "timesig" /\ tracks_data[1][3].tick = 480

\* C29: the duration code of a note or chord token is the quantization of
\* the largest duration_ticks among the notes grouped into it, in whichever
\* order the notes stand among the objects.
C29_ChordDurationIsLongest ==
    [][FormatsNote =>
          track_string_parts'[Len(track_string_parts')]
              = << ConsumedPitches
                     \o _ticks_to_duration_code(LongestConsumed, ticks_per_beat) >>]_vars

\* at 240 ticks per beat E4 (closed after 480 ticks) and C4 (force-closed,
\* 240 ticks) start at tick 0: the chord carries the code of the 480 ticks
\* of E4, the second note in pitch order
C29_Witness ==
    /\ pc = "pass2" /\ midi_tpb = 240 /\ Len(musical_objects) = 3 /\ i = 4
    /\ musical_objects[2].type = "note" /\ musical_objects[2].pitch_num = 64
    /\ musical_objects[2].duration_ticks = 480
    /\ musical_objects[3].type = "note" /\ musical_objects[3].pitch_num = 60
    /\ musical_objects[3].duration_ticks = 240
    /\ track_string_parts[Len(track_string_parts)] = <<"C4+E4/2">>

\* the tick ranges [tick, tick + duration) of the notes of one pitch in s
\* are pairwise disjoint
SamePitchDisjoint(s) ==
    \A k, l \in 1..Len(s) :
        (k < l /\ s[k].type = "note" /\ s[l].type = "note" /\ s[k].pitch = s[l].pitch)
           => \/ s[k].tick + s[k].duration <= s[l].tick
              \/ s[l].tick + s[l].duration <= s[k].tick

\* no two notes of s share both start tick and pitch
NoTwinNotes(s) ==
    \A k, l \in 1..Len(s) :
        (k < l /\ s[k].type = "note" /\ s[l].type = "note" /\ s[k].pitch = s[l].pitch)
           => s[k].tick # s[l].tick

\* C34: within one track the NoteEvents of the same pitch occupy pairwise
\* disjoint tick ranges [start, start + duration), for every message
\* sequence, re-triggers, zero-gap re-triggers and force-closed notes
\* included: it holds of the events emitted so far together with the notes
\* still open, closed with their fallback duration, which are the events of
\* the track when it ends here; hence no two NoteEvents share both start
\* tick and pitch.
C34_SamePitchDisjoint ==
    pc = "parse" => SamePitchDisjoint(EmittedEvents) /\ NoTwinNotes(EmittedEvents)

\* at 240 ticks per beat: NoteOn C4 at tick 0 and NoteOn C4 again at tick
\* 480.  The first occurrence ends where the second one, force-closed if
\* the track ends here, starts.
C34_Witness ==
    /\ pc = "parse" /\ midi_tpb = 240
    /\ EmittedEvents = <<NoteEvent(0, 60, 80, 480), NoteEvent(480, 60, 80, 240)>>

====
